---------------------------- MODULE Spec2Model ----------------------------
(***************************************************************************)
(* Ticket lifecycle of the newbot repository: the ticket bot (newbot.py),  *)
(* the coach roster bot (coachbot.py), the combined bot (noobbot.py) and   *)
(* the counters / topic parsing of cogs/coaching.py and cogs/ticketing.py. *)
(*                                                                         *)
(* Room topics are Python strings; they are modelled as sequences of       *)
(* one-character strings so that packing, splitting, substring tests and   *)
(* int() are computed the way the code computes them.  Python values that  *)
(* can be None, int or str are tagged records (PyNone, PyInt, PyStr).      *)
(***************************************************************************)
EXTENDS Integers, Sequences, FiniteSets, TLC

-----------------------------------------------------------------------------
(* Python values *)

PyNone == [t |-> "none"]
PyInt(n) == [t |-> "int", i |-> n]
PyStr(s) == [t |-> "str", s |-> s]

\* Python truthiness of None / int / str
Truthy(v) ==
    CASE v.t = "none" -> FALSE
      [] v.t = "int"  -> v.i # 0
      [] v.t = "str"  -> Len(v.s) > 0

-----------------------------------------------------------------------------
(* String literals of the source *)

Lit ==
    [ ticket_meta |-> <<"t", "i", "c", "k", "e", "t", "_", "m", "e", "t", "a">>,
      coach_app |-> <<"c", "o", "a", "c", "h", "_", "a", "p", "p">>,
      coach |-> <<"c", "o", "a", "c", "h">>,
      none |-> <<"n", "o", "n", "e">>,
      None |-> <<"N", "o", "n", "e">>,
      panel |-> <<"p", "a", "n", "e", "l">>,
      ticket |-> <<"t", "i", "c", "k", "e", "t">>,
      opener |-> <<"o", "p", "e", "n", "e", "r">>,
      claimer |-> <<"c", "l", "a", "i", "m", "e", "r">>,
      claimed |-> <<"c", "l", "a", "i", "m", "e", "d">>,
      created |-> <<"c", "r", "e", "a", "t", "e", "d">>,
      submitted |-> <<"s", "u", "b", "m", "i", "t", "t", "e", "d">>,
      smsg |-> <<"s", "m", "s", "g">>,
      approved |-> <<"a", "p", "p", "r", "o", "v", "e", "d">>,
      entry |-> <<"e", "n", "t", "r", "y">>,
      counter |-> <<"c", "o", "u", "n", "t", "e", "r">>,
      claimed_by |-> <<"c", "l", "a", "i", "m", "e", "d", "_", "b", "y">> ]

-----------------------------------------------------------------------------
(* str methods and int() *)

Digits == <<"0", "1", "2", "3", "4", "5", "6", "7", "8", "9">>

IsDigit(c) == \E d \in 1..10 : Digits[d] = c

DigitVal(c) == (CHOOSE d \in 1..10 : Digits[d] = c) - 1

\* f"{n}" for an int n
RECURSIVE NatToStr(_)
NatToStr(n) == IF n < 10 THEN <<Digits[n + 1]>>
               ELSE NatToStr(n \div 10) \o <<Digits[(n % 10) + 1]>>

IntToStr(n) == IF n < 0 THEN <<"-">> \o NatToStr(0 - n) ELSE NatToStr(n)

\* str.strip() restricted to blanks
RECURSIVE LStrip(_)
LStrip(s) == IF Len(s) > 0 /\ s[1] = " " THEN LStrip(Tail(s)) ELSE s

RECURSIVE RStrip(_)
RStrip(s) == IF Len(s) > 0 /\ s[Len(s)] = " " THEN RStrip(SubSeq(s, 1, Len(s) - 1)) ELSE s

Strip(s) == RStrip(LStrip(s))

Unsigned(s) == IF Len(s) > 0 /\ s[1] \in {"-", "+"} THEN Tail(s) ELSE s

\* int(s) returns a value (otherwise it raises ValueError)
CanInt(s) ==
    LET u == Unsigned(Strip(s))
    IN  Len(u) > 0 /\ \A k \in 1..Len(u) : IsDigit(u[k])

RECURSIVE DigitsVal(_)
DigitsVal(u) == IF Len(u) = 0 THEN 0
                ELSE 10 * DigitsVal(SubSeq(u, 1, Len(u) - 1)) + DigitVal(u[Len(u)])

IntOf(s) ==
    LET t == Strip(s)
    IN  IF Len(t) > 0 /\ t[1] = "-" THEN 0 - DigitsVal(Tail(t))
        ELSE DigitsVal(Unsigned(t))

\* does sub occur in s at position k
MatchAt(s, sub, k) ==
    /\ k + Len(sub) - 1 <= Len(s)
    /\ \A i \in 1..Len(sub) : s[k + i - 1] = sub[i]

\* position of the first occurrence of sub in s at or after k, 0 when there is none
RECURSIVE FindFrom(_, _, _)
FindFrom(s, sub, k) ==
    IF k + Len(sub) - 1 > Len(s) THEN 0
    ELSE IF MatchAt(s, sub, k) THEN k
    ELSE FindFrom(s, sub, k + 1)

\* s.find(sep) + 1
FindSep(s, sep) == FindFrom(s, sep, 1)

\* sub in s
Contains(s, sub) == FindSep(s, sub) # 0

\* s.startswith(pre)
StartsWith(s, pre) == MatchAt(s, pre, 1)

\* s.split(sep): always at least one part
RECURSIVE Split(_, _)
Split(s, sep) ==
    LET k == FindSep(s, sep)
    IN  IF k = 0 THEN <<s>>
        ELSE <<SubSeq(s, 1, k - 1)>> \o Split(SubSeq(s, k + Len(sep), Len(s)), sep)

\* s.split(sep, 1): one or two parts
SplitOnce(s, sep) ==
    LET k == FindSep(s, sep)
    IN  IF k = 0 THEN <<s>>
        ELSE <<SubSeq(s, 1, k - 1), SubSeq(s, k + Len(sep), Len(s))>>

\* sep.join(parts)
RECURSIVE Join(_, _)
Join(parts, sep) ==
    IF Len(parts) = 0 THEN <<>>
    ELSE IF Len(parts) = 1 THEN parts[1]
    ELSE parts[1] \o sep \o Join(Tail(parts), sep)

\* s.replace(old, new), every occurrence, left to right
RECURSIVE Replace(_, _, _)
Replace(s, old, new) ==
    LET k == FindSep(s, old)
    IN  IF k = 0 THEN s
        ELSE SubSeq(s, 1, k - 1) \o new \o Replace(SubSeq(s, k + Len(old), Len(s)), old, new)

\* dict(pairs) raises ValueError unless every element has exactly two items
DictOk(pairs) == \A k \in 1..Len(pairs) : Len(pairs[k]) = 2

\* d.get(key) on dict(pairs): the last pair with that key wins, None if absent
DictGet(pairs, key) ==
    LET hits == {k \in 1..Len(pairs) : pairs[k][1] = key}
    IN  IF hits = {} THEN PyNone
        ELSE PyStr(pairs[CHOOSE k \in hits : \A j \in hits : j <= k][2])

\* d[key] = value on a dict kept in insertion order: an existing key keeps
\* its position, a new key is appended
DictSet(pairs, key, value) ==
    IF \E k \in 1..Len(pairs) : pairs[k][1] = key
    THEN [k \in 1..Len(pairs) |-> IF pairs[k][1] = key THEN <<key, value>> ELSE pairs[k]]
    ELSE Append(pairs, <<key, value>>)

\* dict(pairs) as the ordered list of its items: later duplicates of a key
\* overwrite the value at the key's first position
RECURSIVE DictOf(_)
DictOf(pairs) ==
    IF Len(pairs) = 0 THEN <<>>
    ELSE DictSet(DictOf(SubSeq(pairs, 1, Len(pairs) - 1)),
                 pairs[Len(pairs)][1], pairs[Len(pairs)][2])

\* f"{v}"
Fmt(v) ==
    CASE v.t = "none" -> Lit.None
      [] v.t = "int"  -> IntToStr(v.i)
      [] v.t = "str"  -> v.s

\* the same with a capitalised 'None' written for an unset value
FmtOrNone_None(v) == IF Truthy(v) THEN Fmt(v) ELSE Lit.None

\* f"{v if v else 'none'}"
FmtOrNone(v) == IF Truthy(v) THEN Fmt(v) ELSE Lit.none

-----------------------------------------------------------------------------
(* newbot.py: ticket metadata codec *)

meta_pack(panel_id, ticket_seq, opener_id, claimer_id) ==
    Lit.ticket_meta
      \o <<"|">> \o Lit.panel \o <<"=">> \o IntToStr(panel_id)
      \o <<"|">> \o Lit.ticket \o <<"=">> \o IntToStr(ticket_seq)
      \o <<"|">> \o Lit.opener \o <<"=">> \o IntToStr(opener_id)
      \o <<"|">> \o Lit.claimer \o <<"=">> \o FmtOrNone(claimer_id)

MetaUnset == [panel |-> PyNone, ticket |-> PyNone, opener |-> PyNone, claimer |-> PyNone]

\* [pair.split("=", 1) for pair in topic.split("|")[1:]]
TopicPairs(s) ==
    LET segs == Tail(Split(s, <<"|">>))
    IN  [k \in 1..Len(segs) |-> SplitOnce(segs[k], <<"=">>)]

\* int(v) if v else None: does it raise, and its value when it does not
IntFieldRaises(v) == Truthy(v) /\ ~CanInt(v.s)

IntField(v) == IF Truthy(v) THEN PyInt(IntOf(v.s)) ELSE PyNone

\* None if (cl in (None, "none")) else int(cl)
ClaimerRaises(cl) == cl # PyNone /\ cl # PyStr(Lit.none) /\ ~CanInt(cl.s)

ClaimerField(cl) == IF cl = PyNone \/ cl = PyStr(Lit.none) THEN PyNone ELSE PyInt(IntOf(cl.s))

\* the try block of meta_unpack: exc tells whether a statement raised, out is
\* the dict as it stands when the block is left
meta_unpack_try(s) ==
    LET pairs == TopicPairs(s)
        o1 == [MetaUnset EXCEPT !.panel = IntField(DictGet(pairs, Lit.panel))]
        o2 == [o1 EXCEPT !.ticket = IntField(DictGet(pairs, Lit.ticket))]
        o3 == [o2 EXCEPT !.opener = IntField(DictGet(pairs, Lit.opener))]
        o4 == [o3 EXCEPT !.claimer = ClaimerField(DictGet(pairs, Lit.claimer))]
    IN  IF ~DictOk(pairs) THEN [exc |-> TRUE, out |-> MetaUnset]
        ELSE IF IntFieldRaises(DictGet(pairs, Lit.panel)) THEN [exc |-> TRUE, out |-> MetaUnset]
        ELSE IF IntFieldRaises(DictGet(pairs, Lit.ticket)) THEN [exc |-> TRUE, out |-> o1]
        ELSE IF IntFieldRaises(DictGet(pairs, Lit.opener)) THEN [exc |-> TRUE, out |-> o2]
        ELSE IF ClaimerRaises(DictGet(pairs, Lit.claimer)) THEN [exc |-> TRUE, out |-> o3]
        ELSE [exc |-> FALSE, out |-> o4]

\* the whole call: raised tells whether an exception leaves the function
\* (except Exception: pass swallows whatever the try block raises), caught
\* whether the handler ran
\* a meta_unpack that parses every non-empty topic, whatever its marker
meta_unpack_call_anytopic(topic) ==
    IF ~Truthy(topic)
    THEN [raised |-> FALSE, caught |-> FALSE, out |-> MetaUnset]
    ELSE LET r == meta_unpack_try(topic.s)
         IN  [raised |-> FALSE, caught |-> r.exc, out |-> r.out]

meta_unpack_call(topic) ==
    IF ~Truthy(topic) \/ ~Contains(topic.s, Lit.ticket_meta)
    THEN [raised |-> FALSE, caught |-> FALSE, out |-> MetaUnset]
    ELSE LET r == meta_unpack_try(topic.s)
         IN  [raised |-> FALSE, caught |-> r.exc, out |-> r.out]

meta_unpack(topic) == meta_unpack_call(topic).out

-----------------------------------------------------------------------------
(* coachbot.py: coach application topic codec *)

topic_pack(opener_id, created_iso, submitted_iso, submitted_msg_id, approved_iso, entry_id) ==
    Lit.coach_app
      \o <<"|">> \o Lit.opener \o <<"=">> \o IntToStr(opener_id)
      \o <<"|">> \o Lit.created \o <<"=">> \o created_iso
      \o <<"|">> \o Lit.submitted \o <<"=">> \o FmtOrNone(submitted_iso)
      \o <<"|">> \o Lit.smsg \o <<"=">> \o FmtOrNone(submitted_msg_id)
      \o <<"|">> \o Lit.approved \o <<"=">> \o FmtOrNone(approved_iso)
      \o <<"|">> \o Lit.entry \o <<"=">> \o FmtOrNone(entry_id)

TopicUnset ==
    [opener |-> PyNone, created |-> PyNone, submitted |-> PyNone,
     smsg |-> PyNone, approved |-> PyNone, entry |-> PyNone]

\* None if (v in (None, "none")) else v
NoneOr(v) == IF v = PyNone \/ v = PyStr(Lit.none) THEN PyNone ELSE v

topic_unpack_try(s) ==
    LET kv == TopicPairs(s)
    IN  IF ~DictOk(kv) THEN [exc |-> TRUE, out |-> TopicUnset]
        ELSE [exc |-> FALSE,
              out |-> [opener    |-> DictGet(kv, Lit.opener),
                       created   |-> DictGet(kv, Lit.created),
                       submitted |-> NoneOr(DictGet(kv, Lit.submitted)),
                       smsg      |-> NoneOr(DictGet(kv, Lit.smsg)),
                       approved  |-> NoneOr(DictGet(kv, Lit.approved)),
                       entry     |-> NoneOr(DictGet(kv, Lit.entry))]]

topic_unpack_call(topic) ==
    IF ~Truthy(topic) \/ ~Contains(topic.s, Lit.coach_app)
    THEN [raised |-> FALSE, caught |-> FALSE, out |-> TopicUnset]
    ELSE LET r == topic_unpack_try(topic.s)
         IN  [raised |-> FALSE, caught |-> r.exc, out |-> r.out]

topic_unpack(topic) == topic_unpack_call(topic).out

-----------------------------------------------------------------------------
(* cogs/coaching.py: the topic parse inside TicketView.claim *)

\* {k: v for k, v in (p.split("=") for p in topic.split("; ") if "=" in p)}
\* unpacking into k, v raises ValueError unless the split has two items
claim_parts_call(topic) ==
    LET s == IF Truthy(topic) THEN topic.s ELSE <<>>
        all == Split(s, <<";", " ">>)
        idx == {k \in 1..Len(all) : Contains(all[k], <<"=">>)}
        RECURSIVE Pick(_)
        Pick(k) == IF k > Len(all) THEN <<>>
                   ELSE IF k \in idx THEN <<Split(all[k], <<"=">>)>> \o Pick(k + 1)
                   ELSE Pick(k + 1)
        pairs == Pick(1)
    IN  IF DictOk(pairs)
        THEN [raised |-> FALSE, parts |-> DictOf(pairs)]
        ELSE [raised |-> TRUE, parts |-> <<>>]

\* "; ".join(f"{k}={v}" for k, v in parts.items())
JoinItems(items, sep) ==
    Join([k \in 1..Len(items) |-> items[k][1] \o <<"=">> \o items[k][2]], sep)

-----------------------------------------------------------------------------
(* Inputs of the codec checks *)

\* largest id / sequence number fed to the codecs
MaxCodecId == 10

\* largest number of "|" segments after the marker in a raw topic
MaxRawSegs == 2

\* number of distinct timestamps
MaxStamp == 1

CodecIds == 0..MaxCodecId

\* datetime.now(timezone.utc).strftime("%Y-%m-%dT%H:%M:%SZ") in year 2000 + y
Stamp(y) ==
    IntToStr(2000 + y)
      \o <<"-", "0", "1", "-", "0", "1", "T", "0", "0", ":", "0", "0", ":", "0", "0", "Z">>

Stamps == {Stamp(y) : y \in 0..MaxStamp}

OptStamps == {PyNone} \cup {PyStr(s) : s \in Stamps}

OptIds == {PyNone} \cup {PyInt(n) : n \in CodecIds}

\* well-formed and malformed "key=value" segments
RawSegs ==
    {<<"p", "a", "n", "e", "l", "=", "1">>,
     <<"p", "a", "n", "e", "l", "=", "x">>,
     <<"p", "a", "n", "e", "l", "=", "1", "=", "2">>,
     <<"t", "i", "c", "k", "e", "t", "=", "2">>,
     <<"t", "i", "c", "k", "e", "t", "=", "x">>,
     <<"o", "p", "e", "n", "e", "r", "=", "3">>,
     <<"o", "p", "e", "n", "e", "r">>,
     <<"c", "l", "a", "i", "m", "e", "r", "=", "n", "o", "n", "e">>,
     <<"c", "l", "a", "i", "m", "e", "r", "=">>,
     <<"c", "l", "a", "i", "m", "e", "d", "_", "b", "y", "=", "N", "o", "n", "e">>,
     <<"s", "m", "s", "g", "=", "4">>,
     <<"e", "n", "t", "r", "y", "=", "x">>}

RawMarkers == {Lit.ticket_meta, Lit.coach_app, Lit.coach, <<>>}

RECURSIVE SeqsUpTo(_, _)
SeqsUpTo(S, n) ==
    IF n = 0 THEN {<<>>}
    ELSE LET shorter == SeqsUpTo(S, n - 1)
         IN  shorter \cup {Append(q, x) : q \in shorter, x \in S}

\* channel.topic values: None, or a marker followed by segments
RawTopics(sep) ==
    {PyNone} \cup
    {PyStr(Join(<<m>> \o q, sep)) : m \in RawMarkers, q \in SeqsUpTo(RawSegs, MaxRawSegs)}

-----------------------------------------------------------------------------
(* The platform and the bots *)

\* number of ticket sequence numbers the model hands out
MaxTickets == 2

\* number of panels the model creates
MaxPanels == 2

\* number of callbacks in flight at the same time
MaxTasks == 2

\* number of transcript deliveries per room after which no new close starts
MaxTranscripts == 1

\* number of answered claims per room after which no new claim starts in
\* cogs/ticketing.py, whose claim has no guard on an earlier claim
MaxClaims == 2

\* number of messages an opener writes into a room
MaxMessages == 2

\* number of roster entry ids the model hands out
MaxEntries == 2

\* number of application rooms opened in a guild
MaxRooms == 2

\* guild members: 1 is a plain member, 2 holds RoleA and manage_guild,
\* 3 holds RoleB, manage_channels and administrator
Users == {1, 2, 3}

RoleA == 21

RoleB == 22

Roles == {RoleA, RoleB}

MemberRoles(u) == IF u = 2 THEN {RoleA} ELSE IF u = 3 THEN {RoleB} ELSE {}

manage_channels(u) == u = 3

manage_guild(u) == u \in {2, 3}

administrator(u) == u = 3

CategoryId == 80

LogChannelId == 90

RosterChannelId == 91

\* the bots whose ticket panels hand out sequence numbers
Programs == {"newbot", "noobbot", "ticketing", "coaching"}

\* the panel names given to /ticket_setup of cogs/ticketing.py
PanelNames == {"coaching", "support"}

VARIABLES
    codec,      \* the codec check: one input and, once applied, its result
    program,    \* which bot is running
    store,      \* bot.store[guild]: the per-guild config dict
    channels,   \* the guild's ticket rooms, indexed by channel id
    tasks,      \* the callbacks in flight (position and locals of each)
    obs,        \* per room: what the callbacks did to it
    allocs,     \* the ticket sequence numbers handed out, in allocation order
    resp,       \* the last response sent to an acting user
    views       \* the process's view store and the state its views hold in memory

vars == <<codec, program, store, channels, tasks, obs, allocs, resp, views>>

live == <<program, store, channels, tasks, obs, allocs, resp, views>>

Idle == [kind |-> "idle"]

NoResp == [op |-> "none", code |-> "none", ephemeral |-> TRUE]

\* an empty store whose ticket counter starts at 2 instead of 1
StoreInit_seq2 ==
    [default_category_id |-> PyNone,
     log_channel_id      |-> PyNone,
     panels              |-> <<>>,
     next_panel_id       |-> 1,
     next_ticket_seq     |-> 2]

\* newbot.py ensure_guild on an empty store
StoreInit ==
    [default_category_id |-> PyNone,
     log_channel_id      |-> PyNone,
     panels              |-> <<>>,
     next_panel_id       |-> 1,
     next_ticket_seq     |-> 1]

\* noobbot.py ensure_guild on an empty store: the tickets and coach sections
NoobStoreInit ==
    [tickets |-> [log_channel_id  |-> PyNone,
                  panels          |-> <<>>,
                  next_panel_id   |-> 1,
                  next_ticket_seq |-> 1],
     coach   |-> [category_id       |-> PyNone,
                  roster_channel_id |-> PyNone,
                  log_channel_id    |-> PyNone,
                  next_entry_id     |-> 1]]

\* coachbot.py ensure_guild on an empty store
CoachStoreInit ==
    [category_id       |-> PyNone,
     roster_channel_id |-> PyNone,
     log_channel_id    |-> PyNone,
     next_entry_id     |-> 1]

\* cogs/ticketing.py load_config with no file: no panels, no ticket_counter
\* key yet (PyNone stands for the missing key), nobody on the roster, no
\* claim role; panel_names is the order of the keys of the panels dict
TicketingStoreInit ==
    [panels         |-> <<>>,
     panel_names    |-> <<>>,
     ticket_counter |-> PyNone,
     channel_meta   |-> <<>>,
     roster         |-> {},
     claim_role_id  |-> PyNone]

\* cogs/coaching.py GuildConfig()
GuildConfig ==
    [category_id    |-> PyNone,
     claim_role_id  |-> PyNone,
     log_channel_id |-> PyNone,
     counter        |-> 0]

StoreOf(p) ==
    CASE p = "noobbot"   -> NoobStoreInit
      [] p = "coachbot"  -> CoachStoreInit
      [] p = "ticketing" -> TicketingStoreInit
      [] p = "coaching"  -> GuildConfig
      [] OTHER           -> StoreInit

\* the custom_id of a panel's open button: f"{OPEN_PREFIX}:{guild_id}:{panel_id}"
\* in newbot.py and noobbot.py (the model has one guild), the fixed
\* "ticket:open" of TicketPanelView in cogs/ticketing.py
OpenCustomId(p, panel) ==
    IF p = "ticketing" THEN <<"ticket:open">> ELSE <<"ultra_ticket_open", "guild", panel>>

\* TicketChannelView.__init__: what a room's view holds in memory
TicketChannelView == [claimer_id |-> PyNone, closed |-> FALSE]

\* a process that has registered nothing but the room view of cog_load:
\* panels are the panel messages sent with a view of their own, persistent
\* the views of bot.add_view by custom_id, rooms the views sent with a room's
\* welcome message, generic the one TicketChannelView(0, cog, None, None, 0)
NoViews ==
    [panels |-> {}, persistent |-> <<>>, rooms |-> <<>>, generic |-> TicketChannelView]

Range(seq) == {seq[i] : i \in 1..Len(seq)}

RECURSIVE Ascending(_)
Ascending(S) ==
    IF S = {} THEN <<>>
    ELSE LET lo == CHOOSE x \in S : \A y \in S : x <= y
         IN  <<lo>> \o Ascending(S \ {lo})

\* the keys of the stored panels dict in iteration order: panel ids are
\* inserted in increasing order, panel names in the order of their first save
PanelKeys(p, st) ==
    CASE p = "newbot"    -> Ascending(DOMAIN st.panels)
      [] p = "noobbot"   -> Ascending(DOMAIN st.tickets.panels)
      [] p = "ticketing" -> st.panel_names
      [] OTHER           -> <<>>

\* bot.add_view for each key in turn: a later view takes the custom_id of
\* an earlier one
RECURSIVE add_views(_, _, _)
add_views(reg, p, keys) ==
    IF keys = <<>> THEN reg
    ELSE add_views((OpenCustomId(p, Head(keys)) :> Head(keys)) @@ reg, p, Tail(keys))

\* the views of a process that posted the stored panels itself
LiveViews(p, st) ==
    [NoViews EXCEPT
       !.panels = Range(PanelKeys(p, st)),
       !.persistent = IF p = "ticketing" THEN <<>> ELSE add_views(<<>>, p, PanelKeys(p, st))]

\* the panel messages whose button still reaches a view
ListenedPanels(posted) ==
    {m \in posted : m \in views.panels \/ OpenCustomId(program, m) \in DOMAIN views.persistent}

\* the panel of the view that receives a click on panel message m: the view
\* sent with the message if the process still holds it, else the persistent
\* view registered under the button's custom_id
PanelListener(m) ==
    IF m \in views.panels THEN m ELSE views.persistent[OpenCustomId(program, m)]

\* per room: successful claim answers, transcripts delivered, deletions,
\* roster messages published for the room's application, and the permission
\* overwrites the room had when it was last locked
ObsInit == [claims |-> 0, transcripts |-> 0, deletes |-> 0, posts |-> 0, before_close |-> <<>>]

LiveIdle ==
    /\ store = StoreOf(program)
    /\ channels = <<>>
    /\ tasks = [t \in 1..MaxTasks |-> Idle]
    /\ obs = <<>>
    /\ allocs = <<>>
    /\ resp = NoResp
    /\ views = LiveViews(program, store)

(* Codec checks: Init draws one input, the action applies the function *)

MetaInputs ==
    {[panel |-> p, ticket |-> tk, opener |-> o, claimer |-> c] :
        p \in CodecIds, tk \in CodecIds, o \in CodecIds, c \in OptIds}

TopicInputs ==
    {[opener |-> o, created |-> cr, submitted |-> su, smsg |-> sm, approved |-> ap, entry |-> en] :
        o \in CodecIds, cr \in Stamps, su \in OptStamps, sm \in OptIds,
        ap \in OptStamps, en \in OptIds}

CodecInit ==
    /\ program = "codec"
    /\ LiveIdle
    /\ \/ \E x \in MetaInputs : codec = [op |-> "meta_rt", done |-> FALSE, in |-> x]
       \/ \E x \in TopicInputs : codec = [op |-> "topic_rt", done |-> FALSE, in |-> x]
       \/ \E raw \in RawTopics(<<"|">>) :
             \E op \in {"meta_dec", "topic_dec"} : codec = [op |-> op, done |-> FALSE, in |-> raw]
       \/ \E raw \in RawTopics(<<";", " ">>) : codec = [op |-> "parts_dec", done |-> FALSE, in |-> raw]
       \/ \E x \in TopicInputs : codec = [op |-> "meta_of_topic", done |-> FALSE, in |-> x]
       \/ \E x \in MetaInputs : codec = [op |-> "topic_of_meta", done |-> FALSE, in |-> x]

Pending(op) == codec.op = op /\ ~codec.done

Finish(res) ==
    /\ codec' = [op |-> codec.op, done |-> TRUE, in |-> codec.in, res |-> res]
    /\ UNCHANGED live

MetaRoundTrip ==
    /\ Pending("meta_rt")
    /\ LET x == codec.in
       IN  Finish(meta_unpack_call(PyStr(meta_pack(x.panel, x.ticket, x.opener, x.claimer))))

TopicRoundTrip ==
    /\ Pending("topic_rt")
    /\ LET x == codec.in
       IN  Finish(topic_unpack_call(PyStr(topic_pack(x.opener, x.created, x.submitted,
                                                     x.smsg, x.approved, x.entry))))

MetaDecode == Pending("meta_dec") /\ Finish(meta_unpack_call(codec.in))

TopicDecode == Pending("topic_dec") /\ Finish(topic_unpack_call(codec.in))

ClaimPartsDecode == Pending("parts_dec") /\ Finish(claim_parts_call(codec.in))

\* newbot's meta_unpack reads a topic written by coachbot's topic_pack
MetaOfTopic ==
    /\ Pending("meta_of_topic")
    /\ LET x == codec.in
       IN  Finish(meta_unpack_call(PyStr(topic_pack(x.opener, x.created, x.submitted,
                                                    x.smsg, x.approved, x.entry))))

\* coachbot's topic_unpack reads a topic written by newbot's meta_pack
TopicOfMeta ==
    /\ Pending("topic_of_meta")
    /\ LET x == codec.in
       IN  Finish(topic_unpack_call(PyStr(meta_pack(x.panel, x.ticket, x.opener, x.claimer))))

CodecNext ==
    \/ MetaRoundTrip
    \/ TopicRoundTrip
    \/ MetaDecode
    \/ TopicDecode
    \/ ClaimPartsDecode
    \/ MetaOfTopic
    \/ TopicOfMeta

SpecCodec == CodecInit /\ [][CodecNext]_vars

-----------------------------------------------------------------------------
(* Shared helpers of the callbacks *)

ChannelIds == 1..Len(channels)

\* interaction.channel is a TextChannel of the guild
IsTextChannel(ch) == ch \in ChannelIds /\ channels[ch].exists

TopicOf(ch) == PyStr(channels[ch].topic)

\* lowest free callback slot
FreeSlot == CHOOSE t \in 1..MaxTasks : tasks[t] = Idle /\ \A q \in 1..(t - 1) : tasks[q] # Idle

HasFreeSlot == \E t \in 1..MaxTasks : tasks[t] = Idle

Start(task) == tasks' = [tasks EXCEPT ![FreeSlot] = task]

Goto(t, task) == tasks' = [tasks EXCEPT ![t] = task]

Done(t) == tasks' = [tasks EXCEPT ![t] = Idle]

\* interaction.response.send_message(..., ephemeral=eph)
Respond(op, code, eph) == resp' = [op |-> op, code |-> code, ephemeral |-> eph]

\* a guard failure that has handed out a number before it answers
Reject_consume(op, code) ==
    /\ Respond(op, code, TRUE)
    /\ allocs' = Append(allocs, Len(allocs) + 1)
    /\ UNCHANGED <<codec, program, views, store, channels, tasks, obs>>

\* a guard failure: the callback answers the actor and returns
Reject(op, code) ==
    /\ Respond(op, code, TRUE)
    /\ UNCHANGED <<codec, program, views, store, channels, tasks, obs, allocs>>

\* an exception leaves the callback: nothing is answered, the task ends
Crash(t, op) ==
    /\ Done(t)
    /\ UNCHANGED obs
    /\ Respond(op, "unhandled_exception", TRUE)

\* a room just created: latest is the id of the opener's newest message with
\* content in the room, 0 while there is none
NewChannel(topic) ==
    [exists |-> TRUE, topic |-> topic, closed_prefix |-> FALSE, latest |-> 0, locked |-> FALSE,
     overwrites |-> <<>>]

-----------------------------------------------------------------------------
(* newbot.py *)

user_has_panel_permission(member, panel_role_ids) ==
    \/ manage_channels(member)
    \/ MemberRoles(member) \cap panel_role_ids # {}

\* the scan of open_ticket: a room whose metadata names this panel and opener
HasTicket(pid, u) ==
    \E ch \in ChannelIds :
        /\ channels[ch].exists
        /\ LET meta == meta_unpack(TopicOf(ch))
           IN  meta.panel = PyInt(pid) /\ meta.opener = PyInt(u)

\* the allocation with the increment left out
TakeTicketSeq_keep(g) == g

\* ticket_seq = g["next_ticket_seq"]; g["next_ticket_seq"] = ticket_seq + 1
TakeTicketSeq(g) == [g EXCEPT !.next_ticket_seq = @ + 1]

\* /setup
setup_cmd ==
    /\ program = "newbot"
    /\ \E default_category \in {PyNone}, log_channel \in {PyNone, PyInt(LogChannelId)} :
          /\ store' = [store EXCEPT
                         !.default_category_id = IF Truthy(default_category) THEN default_category ELSE @,
                         !.log_channel_id = IF Truthy(log_channel) THEN log_channel ELSE @]
          /\ Respond("setup", "ok", TRUE)
    /\ UNCHANGED <<codec, program, views, channels, tasks, obs, allocs>>

\* /panel
panel_cmd ==
    /\ program = "newbot"
    /\ store.next_panel_id <= MaxPanels
    /\ \E category \in {PyNone, PyInt(CategoryId)}, role_ids \in SUBSET Roles :
          LET cat_id == IF Truthy(category) THEN category ELSE store.default_category_id
              panel_id == store.next_panel_id
          IN  IF ~Truthy(cat_id)
              THEN Reject("panel", "no_category")
              ELSE /\ store' = [store EXCEPT
                                  !.next_panel_id = panel_id + 1,
                                  !.panels = [q \in (DOMAIN @) \cup {panel_id} |->
                                                IF q = panel_id
                                                THEN [category_id |-> cat_id, role_ids |-> role_ids]
                                                ELSE @[q]]]
                   /\ views' = [views EXCEPT
                                  !.panels = @ \cup {panel_id},
                                  !.persistent = add_views(@, program, <<panel_id>>)]
                   /\ Respond("panel", "ok", TRUE)
                   /\ UNCHANGED <<codec, program, channels, tasks, obs, allocs>>

\* OpenPanelView.open_ticket up to its first suspension, the await on
\* create_text_channel; category_ok is whether the category id still
\* resolves to a category
open_ticket ==
    /\ program = "newbot"
    /\ HasFreeSlot
    /\ \E u \in Users, m \in ListenedPanels(1..(store.next_panel_id - 1)),
          category_ok \in BOOLEAN :
          LET pid == PanelListener(m) IN
          IF pid \notin DOMAIN store.panels
          THEN Reject("open_ticket", "panel_not_configured")
          ELSE IF ~Truthy(IF Truthy(store.panels[pid].category_id)
                          THEN store.panels[pid].category_id
                          ELSE store.default_category_id)
          THEN Reject("open_ticket", "no_category")
          ELSE IF ~category_ok
          THEN Reject("open_ticket", "category_unavailable")
          ELSE IF HasTicket(pid, u)
          THEN Reject("open_ticket", "already_open")
          ELSE /\ store.next_ticket_seq <= MaxTickets
               /\ store' = TakeTicketSeq(store)
               /\ Start([kind |-> "open", pc |-> "create", actor |-> u, panel_id |-> pid,
                         ticket_seq |-> store.next_ticket_seq,
                         topic |-> meta_pack(pid, store.next_ticket_seq, u, PyNone)])
               /\ allocs' = Append(allocs, store.next_ticket_seq)
               /\ UNCHANGED <<codec, program, views, channels, obs, resp>>

\* create_text_channel completes; the rest of open_ticket posts messages
open_ticket_created ==
    /\ program = "newbot"
    /\ \E t \in 1..MaxTasks :
          /\ tasks[t].kind = "open"
          /\ channels' = Append(channels, NewChannel(tasks[t].topic))
          /\ obs' = Append(obs, ObsInit)
          /\ Respond("open_ticket", "ticket_created", TRUE)
          /\ Done(t)
    /\ UNCHANGED <<codec, program, views, store, allocs>>

\* a lookup that answers with the handler roles of every panel of the guild
PanelRoleIds_any(pid) == UNION {store.panels[q].role_ids : q \in DOMAIN store.panels}

\* g["panels"].get(str(pid), {}).get("role_ids", [])
PanelRoleIds(pid) == IF pid \in DOMAIN store.panels THEN store.panels[pid].role_ids ELSE {}

\* the guards of TicketControlsView.claim, in their order
ClaimGuard(u, ch) ==
    IF ~IsTextChannel(ch) THEN "not_a_ticket_channel"
    ELSE LET meta == meta_unpack(TopicOf(ch))
         IN  IF meta.panel = PyNone THEN "missing_metadata"
             ELSE IF ~user_has_panel_permission(u, PanelRoleIds(meta.panel.i)) THEN "not_allowed"
             ELSE IF Truthy(meta.claimer) THEN "already_claimed"
             ELSE "ok"

\* the guards of TicketControlsView.close
CloseGuard(u, ch) ==
    IF ~IsTextChannel(ch) THEN "not_a_ticket_channel"
    ELSE LET meta == meta_unpack(TopicOf(ch))
         IN  IF meta.panel = PyNone THEN "missing_metadata"
             ELSE IF ~(meta.opener = PyInt(u)
                       \/ user_has_panel_permission(u, PanelRoleIds(meta.panel.i)))
             THEN "cannot_close"
             ELSE "ok"

\* a /panel_roles that adds the given roles to the ones the panel has
panel_roles_cmd_merge ==
    /\ program = "newbot"
    /\ \E panel_id \in 1..(MaxPanels + 1), new_role_ids \in SUBSET Roles :
          IF panel_id \notin DOMAIN store.panels
          THEN Reject("panel_roles", "panel_not_found")
          ELSE /\ store' = [store EXCEPT !.panels[panel_id].role_ids = @ \cup new_role_ids]
               /\ resp' = [op |-> "panel_roles", code |-> "ok", ephemeral |-> TRUE,
                            panel |-> panel_id, roles |-> new_role_ids]
               /\ UNCHANGED <<codec, program, views, channels, tasks, obs, allocs>>

\* /panel_roles: the answer names the panel and mentions the new roles
panel_roles_cmd ==
    /\ program = "newbot"
    /\ \E panel_id \in 1..(MaxPanels + 1), new_role_ids \in SUBSET Roles :
          IF panel_id \notin DOMAIN store.panels
          THEN Reject("panel_roles", "panel_not_found")
          ELSE /\ store' = [store EXCEPT !.panels[panel_id].role_ids = new_role_ids]
               /\ resp' = [op |-> "panel_roles", code |-> "ok", ephemeral |-> TRUE,
                            panel |-> panel_id, roles |-> new_role_ids]
               /\ UNCHANGED <<codec, program, views, channels, tasks, obs, allocs>>

\* a claim that records the claimer as the opener too
claim_as_opener ==
    /\ program = "newbot"
    /\ HasFreeSlot
    /\ \E u \in Users, ch \in ChannelIds :
          IF ClaimGuard(u, ch) \notin {"already_claimed", "ok"}
          THEN Reject("claim", ClaimGuard(u, ch))
          ELSE LET meta == meta_unpack(TopicOf(ch))
               IN  IF ClaimGuard(u, ch) = "already_claimed"
                   THEN /\ resp' = [op |-> "claim", code |-> "already_claimed", ephemeral |-> TRUE,
                                    names |-> meta.claimer.i]
                        /\ UNCHANGED <<codec, program, views, store, channels, tasks, obs, allocs>>
                   ELSE /\ Start([kind |-> "claim", pc |-> "edit", actor |-> u, ch |-> ch,
                                  new_topic |-> meta_pack(meta.panel.i,
                                                          IF Truthy(meta.ticket) THEN meta.ticket.i ELSE 0,
                                                          u,
                                                          PyInt(u))])
                        /\ UNCHANGED <<codec, program, views, store, channels, obs, allocs, resp>>

\* TicketControlsView.claim up to the await on channel.edit
claim ==
    /\ program = "newbot"
    /\ HasFreeSlot
    /\ \E u \in Users, ch \in ChannelIds :
          IF ClaimGuard(u, ch) \notin {"already_claimed", "ok"}
          THEN Reject("claim", ClaimGuard(u, ch))
          ELSE LET meta == meta_unpack(TopicOf(ch))
               IN  IF ClaimGuard(u, ch) = "already_claimed"
                   THEN /\ resp' = [op |-> "claim", code |-> "already_claimed", ephemeral |-> TRUE,
                                    names |-> meta.claimer.i]
                        /\ UNCHANGED <<codec, program, views, store, channels, tasks, obs, allocs>>
                   ELSE /\ Start([kind |-> "claim", pc |-> "edit", actor |-> u, ch |-> ch,
                                  new_topic |-> meta_pack(meta.panel.i,
                                                          IF Truthy(meta.ticket) THEN meta.ticket.i ELSE 0,
                                                          IF Truthy(meta.opener) THEN meta.opener.i ELSE 0,
                                                          PyInt(u))])
                        /\ UNCHANGED <<codec, program, views, store, channels, obs, allocs, resp>>

\* channel.edit completes (with or without the rename) and claim answers;
\* on a room that is gone both edits raise NotFound
claim_edited ==
    /\ program = "newbot"
    /\ \E t \in 1..MaxTasks :
          /\ tasks[t].kind = "claim"
          /\ LET ch == tasks[t].ch
                 u == tasks[t].actor
             IN  IF ~channels[ch].exists
                 THEN Crash(t, "claim") /\ UNCHANGED channels
                 ELSE /\ channels' = [channels EXCEPT ![ch].topic = tasks[t].new_topic]
                      /\ obs' = [obs EXCEPT ![ch].claims = @ + 1]
                      /\ Respond("claim", "claimed", FALSE)
                      /\ Done(t)
    /\ UNCHANGED <<codec, program, views, store, allocs>>

\* TicketControlsView.close up to the await on response.defer
close ==
    /\ program = "newbot"
    /\ HasFreeSlot
    /\ \E u \in Users, ch \in ChannelIds :
          IF CloseGuard(u, ch) # "ok"
          THEN Reject("close", CloseGuard(u, ch))
          ELSE /\ obs[ch].transcripts < MaxTranscripts
               /\ Start([kind |-> "close", pc |-> "history", actor |-> u, ch |-> ch,
                         to_log |-> FALSE])
               /\ UNCHANGED <<codec, program, views, store, channels, obs, allocs, resp>>

\* The continuations of TicketControlsView.close (newbot.py) and of
\* CoachControlsView.close_and_log (coachbot.py), which share their text.
\* ch.history() is read; then the log channel is looked up
close_history ==
    /\ program \in {"newbot", "coachbot"}
    /\ \E t \in 1..MaxTasks :
          /\ tasks[t].kind = "close" /\ tasks[t].pc = "history"
          /\ IF ~channels[tasks[t].ch].exists
             THEN Crash(t, "close")
             ELSE /\ Goto(t, [tasks[t] EXCEPT !.pc = "deliver",
                                              !.to_log = Truthy(store.log_channel_id)])
                  /\ UNCHANGED <<obs, resp>>
    /\ UNCHANGED <<codec, program, views, store, channels, allocs>>

\* the transcript is sent: to the log channel, else inline in the room
close_deliver ==
    /\ program \in {"newbot", "coachbot"}
    /\ \E t \in 1..MaxTasks :
          /\ tasks[t].kind = "close" /\ tasks[t].pc = "deliver"
          /\ IF ~tasks[t].to_log /\ ~channels[tasks[t].ch].exists
             THEN Crash(t, "close")
             ELSE /\ Goto(t, [tasks[t] EXCEPT !.pc = "notice"])
                  /\ obs' = [obs EXCEPT ![tasks[t].ch].transcripts = @ + 1]
                  /\ UNCHANGED resp
    /\ UNCHANGED <<codec, program, views, store, channels, allocs>>

\* ch.send("Closing in 3 seconds"), then asyncio.sleep(3)
close_notice ==
    /\ program \in {"newbot", "coachbot"}
    /\ \E t \in 1..MaxTasks :
          /\ tasks[t].kind = "close" /\ tasks[t].pc = "notice"
          /\ IF ~channels[tasks[t].ch].exists
             THEN Crash(t, "close")
             ELSE /\ Goto(t, [tasks[t] EXCEPT !.pc = "delete"])
                  /\ UNCHANGED <<obs, resp>>
    /\ UNCHANGED <<codec, program, views, store, channels, allocs>>

\* ch.delete(); on HTTPException the room is renamed closed-<name> instead.
\* outcome is what the platform does with the two requests.
close_delete ==
    /\ program \in {"newbot", "coachbot"}
    /\ \E t \in 1..MaxTasks, outcome \in {"deleted", "renamed", "rename_refused"} :
          /\ tasks[t].kind = "close" /\ tasks[t].pc = "delete"
          /\ LET ch == tasks[t].ch
             IN  IF ~channels[ch].exists \/ outcome = "rename_refused"
                 THEN Crash(t, "close") /\ UNCHANGED channels
                 ELSE IF outcome = "deleted"
                 THEN /\ channels' = [channels EXCEPT ![ch].exists = FALSE]
                      /\ obs' = [obs EXCEPT ![ch].deletes = @ + 1]
                      /\ Done(t)
                      /\ UNCHANGED resp
                 ELSE /\ channels' = [channels EXCEPT ![ch].closed_prefix = TRUE]
                      /\ Done(t)
                      /\ UNCHANGED <<obs, resp>>
    /\ UNCHANGED <<codec, program, views, store, allocs>>

-----------------------------------------------------------------------------
(* noobbot.py: the ticket panels *)

\* /panel (tickets_panel)
tickets_panel ==
    /\ program = "noobbot"
    /\ store.tickets.next_panel_id <= MaxPanels
    /\ \E role_ids \in SUBSET Roles :
          LET panel_id == store.tickets.next_panel_id
          IN  /\ store' = [store EXCEPT
                             !.tickets.next_panel_id = panel_id + 1,
                             !.tickets.panels = [q \in (DOMAIN @) \cup {panel_id} |->
                                                   IF q = panel_id
                                                   THEN [category_id |-> PyInt(CategoryId),
                                                         role_ids |-> role_ids]
                                                   ELSE @[q]]]
              /\ views' = [views EXCEPT
                             !.panels = @ \cup {panel_id},
                             !.persistent = add_views(@, program, <<panel_id>>)]
              /\ Respond("panel", "ok", TRUE)
    /\ UNCHANGED <<codec, program, channels, tasks, obs, allocs>>

\* a deletion that also hands the deleted id back to the counter
panel_delete_rewind ==
    /\ program = "noobbot"
    /\ \E panel_id \in 1..MaxPanels :
          IF panel_id \notin DOMAIN store.tickets.panels
          THEN Reject("panel_delete", "panel_not_found")
          ELSE /\ store' = [store EXCEPT
                              !.tickets.next_panel_id = panel_id,
                              !.tickets.panels = [q \in (DOMAIN @) \ {panel_id} |-> @[q]]]
               /\ Respond("panel_delete", "ok", TRUE)
               /\ UNCHANGED <<codec, program, views, channels, tasks, obs, allocs>>

\* /panel_delete
panel_delete ==
    /\ program = "noobbot"
    /\ \E panel_id \in 1..MaxPanels :
          IF panel_id \notin DOMAIN store.tickets.panels
          THEN Reject("panel_delete", "panel_not_found")
          ELSE /\ store' = [store EXCEPT
                              !.tickets.panels = [q \in (DOMAIN @) \ {panel_id} |-> @[q]]]
               /\ Respond("panel_delete", "ok", TRUE)
               /\ UNCHANGED <<codec, program, views, channels, tasks, obs, allocs>>

\* the scan of noobbot's open_ticket: a room whose topic holds both texts
NoobHasTicket(pid, u) ==
    \E ch \in ChannelIds :
        /\ channels[ch].exists
        /\ Contains(channels[ch].topic, Lit.panel \o <<"=">> \o IntToStr(pid))
        /\ Contains(channels[ch].topic, Lit.opener \o <<"=">> \o IntToStr(u))

\* the topic literal of noobbot's open_ticket
NoobTopic(pid, ticket_seq, u) ==
    Lit.ticket_meta \o <<"|">> \o Lit.panel \o <<"=">> \o IntToStr(pid)
                  \o <<"|">> \o Lit.ticket \o <<"=">> \o IntToStr(ticket_seq)
                  \o <<"|">> \o Lit.opener \o <<"=">> \o IntToStr(u)
                  \o <<"|">> \o Lit.claimer \o <<"=">> \o Lit.none

\* a lookup that answers with a panel for every id, deleted or not
NoobPanel_stale(pid) == [category_id |-> PyInt(CategoryId), role_ids |-> {}]

\* ts["panels"].get(str(self.panel_id))
NoobPanel(pid) ==
    IF pid \in DOMAIN store.tickets.panels THEN store.tickets.panels[pid] ELSE PyNone

\* OpenPanelView.open_ticket of noobbot.py up to the await on
\* create_text_channel; the button of a deleted panel can still be pressed
noobbot_open_ticket ==
    /\ program = "noobbot"
    /\ HasFreeSlot
    /\ \E u \in Users, m \in ListenedPanels(1..(store.tickets.next_panel_id - 1)),
          category_ok \in BOOLEAN :
          LET pid == PanelListener(m) IN
          IF NoobPanel(pid) = PyNone
          THEN Reject("open_ticket", "panel_not_configured")
          ELSE IF ~category_ok
          THEN Reject("open_ticket", "category_unavailable")
          ELSE IF NoobHasTicket(pid, u)
          THEN Reject("open_ticket", "already_open")
          ELSE /\ store.tickets.next_ticket_seq <= MaxTickets
               /\ store' = [store EXCEPT !.tickets.next_ticket_seq = @ + 1]
               /\ Start([kind |-> "open", pc |-> "create", actor |-> u, panel_id |-> pid,
                         ticket_seq |-> store.tickets.next_ticket_seq,
                         topic |-> NoobTopic(pid, store.tickets.next_ticket_seq, u)])
               /\ allocs' = Append(allocs, store.tickets.next_ticket_seq)
               /\ UNCHANGED <<codec, program, views, channels, obs, resp>>

\* create_text_channel completes; open_ticket answers and greets
noobbot_open_ticket_created ==
    /\ program = "noobbot"
    /\ \E t \in 1..MaxTasks :
          /\ tasks[t].kind = "open"
          /\ channels' = Append(channels, NewChannel(tasks[t].topic))
          /\ obs' = Append(obs, ObsInit)
          /\ Respond("open_ticket", "ticket_created", TRUE)
          /\ Done(t)
    /\ UNCHANGED <<codec, program, views, store, allocs>>

\* /setup (tickets_setup)
tickets_setup ==
    /\ program = "noobbot"
    /\ \E log_channel \in {PyNone, PyInt(LogChannelId)} :
          /\ store' = IF Truthy(log_channel)
                      THEN [store EXCEPT !.tickets.log_channel_id = log_channel]
                      ELSE store
          /\ Respond("setup", IF Truthy(log_channel) THEN "ok" ELSE "unchanged", TRUE)
    /\ UNCHANGED <<codec, program, views, channels, tasks, obs, allocs>>

\* dict(p.split("=", 1) for p in topic.split("|") if "=" in p), as its items
NoobMeta(topic) ==
    LET parts == SelectSeq(Split(topic, <<"|">>), LAMBDA p : Contains(p, <<"=">>))
    IN  DictOf([k \in 1..Len(parts) |-> SplitOnce(parts[k], <<"=">>)])

\* the guards of TicketControlsView.claim_ticket for member u in room ch:
\* the answer it gives, "ok" when it goes on to edit the room
ClaimTicketGuard(u, ch) ==
    LET meta == NoobMeta(channels[ch].topic)
        claimed == DictGet(meta, Lit.claimed)
        opener == DictGet(meta, Lit.opener)
    IN  IF ~manage_channels(u) THEN "staff_only"
        ELSE IF Truthy(claimed) /\ claimed # PyStr(Lit.none) THEN "already_claimed"
        ELSE IF Truthy(opener) /\ ~CanInt(opener.s) THEN "unhandled_exception"
        ELSE "ok"

\* TicketControlsView.claim_ticket up to the await on channel.edit
claim_ticket ==
    /\ program = "noobbot"
    /\ HasFreeSlot
    /\ \E ch \in ChannelIds :
          /\ channels[ch].exists
          /\ \E u \in Users :
                IF ClaimTicketGuard(u, ch) # "ok"
                THEN Reject("claim", ClaimTicketGuard(u, ch))
                ELSE /\ Start([kind |-> "claim", pc |-> "edit", actor |-> u, ch |-> ch,
                               new_topic |-> JoinItems(DictSet(NoobMeta(channels[ch].topic),
                                                               Lit.claimed, IntToStr(u)),
                                                       <<"|">>)])
                     /\ UNCHANGED <<codec, program, views, store, channels, obs, allocs, resp>>

\* channel.edit returns and claim_ticket answers; on a room that is gone the
\* edit raises NotFound
claim_ticket_edited ==
    /\ program = "noobbot"
    /\ \E t \in 1..MaxTasks :
          /\ tasks[t].kind = "claim"
          /\ LET ch == tasks[t].ch
             IN  IF ~channels[ch].exists
                 THEN Crash(t, "claim") /\ UNCHANGED channels
                 ELSE /\ channels' = [channels EXCEPT ![ch].topic = tasks[t].new_topic]
                      /\ obs' = [obs EXCEPT ![ch].claims = @ + 1]
                      /\ Respond("claim", "claimed", FALSE)
                      /\ Done(t)
    /\ UNCHANGED <<codec, program, views, store, allocs>>

\* TicketControlsView.close_ticket up to the await on channel.history
close_ticket ==
    /\ program = "noobbot"
    /\ HasFreeSlot
    /\ \E u \in Users, ch \in ChannelIds :
          /\ channels[ch].exists
          /\ IF ~manage_channels(u)
             THEN Reject("close", "staff_only")
             ELSE /\ obs[ch].transcripts < MaxTranscripts
                  /\ Start([kind |-> "close", pc |-> "history", actor |-> u, ch |-> ch,
                            to_log |-> FALSE])
                  /\ UNCHANGED <<codec, program, views, store, channels, obs, allocs, resp>>

\* the history is read; then the log channel is looked up
close_ticket_history ==
    /\ program = "noobbot"
    /\ \E t \in 1..MaxTasks :
          /\ tasks[t].kind = "close" /\ tasks[t].pc = "history"
          /\ IF ~channels[tasks[t].ch].exists
             THEN Crash(t, "close")
             ELSE /\ Goto(t, [tasks[t] EXCEPT !.pc = "deliver",
                                              !.to_log = Truthy(store.tickets.log_channel_id)])
                  /\ UNCHANGED <<obs, resp>>
    /\ UNCHANGED <<codec, program, views, store, channels, allocs>>

\* the transcript is sent: to the log channel, else inline in the room
close_ticket_deliver ==
    /\ program = "noobbot"
    /\ \E t \in 1..MaxTasks :
          /\ tasks[t].kind = "close" /\ tasks[t].pc = "deliver"
          /\ IF ~tasks[t].to_log /\ ~channels[tasks[t].ch].exists
             THEN Crash(t, "close")
             ELSE /\ Goto(t, [tasks[t] EXCEPT !.pc = "delete"])
                  /\ obs' = [obs EXCEPT ![tasks[t].ch].transcripts = @ + 1]
                  /\ UNCHANGED resp
    /\ UNCHANGED <<codec, program, views, store, channels, allocs>>

\* channel.delete(): NotFound is swallowed, any other refusal leaves the
\* callback; close_ticket never answers the interaction
close_ticket_delete ==
    /\ program = "noobbot"
    /\ \E t \in 1..MaxTasks, outcome \in {"deleted", "refused"} :
          /\ tasks[t].kind = "close" /\ tasks[t].pc = "delete"
          /\ LET ch == tasks[t].ch
             IN  IF ~channels[ch].exists
                 THEN /\ Done(t)
                      /\ UNCHANGED <<channels, obs, resp>>
                 ELSE IF outcome = "refused"
                 THEN Crash(t, "close") /\ UNCHANGED channels
                 ELSE /\ channels' = [channels EXCEPT ![ch].exists = FALSE]
                      /\ obs' = [obs EXCEPT ![ch].deletes = @ + 1]
                      /\ Done(t)
                      /\ UNCHANGED resp
    /\ UNCHANGED <<codec, program, views, store, allocs>>

-----------------------------------------------------------------------------
(* cogs/ticketing.py: the panel and its counter *)

\* TicketSetupView.save_button: the selections are complete or not; the
\* panel message is sent with a TicketPanelView of its own
save_button ==
    /\ program = "ticketing"
    /\ \E panel_name \in PanelNames, complete \in BOOLEAN,
          view_roles \in {{RoleA}, Roles}, delete_roles \in {{}, {RoleA}} :
          IF ~complete
          THEN Reject("save_panel", "selection_missing")
          ELSE /\ store' = [store EXCEPT
                              !.panels = (panel_name :> [category |-> CategoryId,
                                                         view_roles |-> view_roles,
                                                         delete_roles |-> delete_roles,
                                                         log_channel |-> LogChannelId]) @@ @,
                              !.panel_names = IF panel_name \in DOMAIN store.panels
                                              THEN @ ELSE Append(@, panel_name)]
               /\ views' = [views EXCEPT !.panels = @ \cup {panel_name}]
               /\ Respond("save_panel", "ok", TRUE)
               /\ UNCHANGED <<codec, program, channels, tasks, obs, allocs>>

\* counter = guild_cfg.setdefault("ticket_counter", 1)
TicketCounter(cfg) == IF cfg.ticket_counter = PyNone THEN 1 ELSE cfg.ticket_counter.i

\* a permission overwrite: view_channel and send_messages, each allowed,
\* denied or unset
PermissionOverwrite(view_channel, send_messages) ==
    [view_channel |-> view_channel, send_messages |-> send_messages]

\* _get_claim_role
ClaimRoles == IF Truthy(store.claim_role_id) THEN {store.claim_role_id.i} ELSE {}

\* the overwrites open_ticket gives a new room: the default role (0) cannot
\* view; the opener, the panel's view roles and the claim role can view and
\* send
RoomOverwrites(u, view_roles) ==
    [target \in {<<"role", 0>>, <<"member", u>>} \cup {<<"role", r>> : r \in view_roles \cup ClaimRoles} |->
        IF target = <<"role", 0>> THEN PermissionOverwrite("deny", "unset")
        ELSE PermissionOverwrite("allow", "allow")]

\* TicketPanelView.open_ticket up to the await on create_text_channel
ticketing_open_ticket ==
    /\ program = "ticketing"
    /\ HasFreeSlot
    /\ \E u \in Users, m \in ListenedPanels(DOMAIN store.panels), category_ok \in BOOLEAN :
          LET panel_name == PanelListener(m) IN
          IF panel_name \notin DOMAIN store.panels
          THEN Reject("open_ticket", "panel_not_configured")
          ELSE IF ~category_ok
          THEN Reject("open_ticket", "category_unavailable")
          ELSE LET ticket_number == TicketCounter(store)
               IN  /\ ticket_number <= MaxTickets
                   /\ store' = [store EXCEPT !.ticket_counter = PyInt(ticket_number + 1)]
                   /\ Start([kind |-> "open", pc |-> "create", actor |-> u,
                             panel_name |-> panel_name, ticket_seq |-> ticket_number,
                             overwrites |-> RoomOverwrites(u, store.panels[panel_name].view_roles)])
                   /\ allocs' = Append(allocs, ticket_number)
                   /\ UNCHANGED <<codec, program, views, channels, obs, resp>>

\* create_text_channel completes: the room has no topic, its metadata goes
\* to cog.channel_meta
ticketing_open_ticket_created ==
    /\ program = "ticketing"
    /\ \E t \in 1..MaxTasks :
          /\ tasks[t].kind = "open"
          /\ channels' = Append(channels, [NewChannel(<<>>) EXCEPT
                                             !.overwrites = tasks[t].overwrites])
          /\ obs' = Append(obs, ObsInit)
          /\ store' = [store EXCEPT
                         !.channel_meta = Append(@, [ticket_number |-> tasks[t].ticket_seq,
                                                     panel_name |-> tasks[t].panel_name,
                                                     opener_id |-> tasks[t].actor,
                                                     claimer_id |-> PyNone])]
          /\ views' = [views EXCEPT !.rooms = Append(@, TicketChannelView)]
          /\ Respond("open_ticket", "ticket_created", TRUE)
          /\ Done(t)
    /\ UNCHANGED <<codec, program, allocs>>

-----------------------------------------------------------------------------
(* cogs/ticketing.py: the controls of a ticket room *)

\* the view that receives a click in room ch: the one sent with the room's
\* welcome message if the process still holds it, else (0) the view that
\* cog_load registered with channel_id 0
ViewRef(ch) == IF ch \in DOMAIN views.rooms THEN ch ELSE 0

ViewOf(ref) == IF ref = 0 THEN views.generic ELSE views.rooms[ref]

SetView(ref, v) ==
    IF ref = 0 THEN [views EXCEPT !.generic = v] ELSE [views EXCEPT !.rooms[ref] = v]

\* is_admin or is_claimer of close_ticket and reopen_ticket, with
\* _get_claim_role
IsStaff(u) ==
    \/ administrator(u)
    \/ Truthy(store.claim_role_id) /\ store.claim_role_id.i \in MemberRoles(u)

\* TicketChannelView.claim up to the await on channel.edit
ticketing_claim ==
    /\ program = "ticketing"
    /\ HasFreeSlot
    /\ \E u \in Users, ch \in ChannelIds :
          /\ channels[ch].exists
          /\ IF u \notin store.roster
             THEN Reject("claim", "not_in_roster")
             ELSE /\ obs[ch].claims < MaxClaims
                  /\ views' = SetView(ViewRef(ch),
                                      [ViewOf(ViewRef(ch)) EXCEPT !.claimer_id = PyInt(u)])
                  /\ Start([kind |-> "claim", pc |-> "edit", actor |-> u, ch |-> ch,
                            view |-> ViewRef(ch)])
                  /\ UNCHANGED <<codec, program, store, channels, obs, allocs, resp>>

\* channel.edit returned or raised (HTTPException is swallowed): the view's
\* claimer_id as it is now goes to channel_meta, then the answer
ticketing_claim_edited ==
    /\ program = "ticketing"
    /\ \E t \in 1..MaxTasks :
          /\ tasks[t].kind = "claim"
          /\ LET ch == tasks[t].ch
             IN  /\ store' = [store EXCEPT
                                !.channel_meta[ch].claimer_id = ViewOf(tasks[t].view).claimer_id]
                 /\ obs' = [obs EXCEPT ![ch].claims = @ + 1]
                 /\ Respond("claim", "ok", FALSE)
                 /\ Done(t)
    /\ UNCHANGED <<codec, program, views, channels, allocs>>

\* the guards of TicketChannelView.close_ticket
CloseTicketGuard(u, ch) ==
    IF ~IsStaff(u) THEN "staff_only"
    ELSE IF ViewOf(ViewRef(ch)).closed THEN "already_closed"
    ELSE "ok"

\* TicketChannelView.close_ticket: answers with a ConfirmCloseView
ticketing_close_ticket ==
    /\ program = "ticketing"
    /\ HasFreeSlot
    /\ \E u \in Users, ch \in ChannelIds :
          /\ channels[ch].exists
          /\ IF CloseTicketGuard(u, ch) # "ok"
             THEN Reject("close", CloseTicketGuard(u, ch))
             ELSE /\ Start([kind |-> "confirm_close", pc |-> "wait", actor |-> u, ch |-> ch,
                            view |-> ViewRef(ch)])
                  /\ Respond("close", "confirm", TRUE)
                  /\ UNCHANGED <<codec, program, views, store, channels, obs, allocs>>

\* /ticket_claim_role_set
claim_role_set ==
    /\ program = "ticketing"
    /\ \E role \in Roles :
          /\ store' = [store EXCEPT !.claim_role_id = PyInt(role)]
          /\ Respond("claim_role_set", "ok", TRUE)
    /\ UNCHANGED <<codec, program, views, channels, tasks, obs, allocs>>

\* the overwrites _lock_channel hands to channel.edit: the claim role keeps
\* send_messages (and gets an overwrite if it has none); every other target
\* whose send_messages is set gets it denied (lock) or allowed (unlock)
lock_channel(overwrites, lock) ==
    [target \in DOMAIN overwrites \cup {<<"role", r>> : r \in ClaimRoles} |->
        IF target \notin DOMAIN overwrites
        THEN PermissionOverwrite("allow", "allow")
        ELSE IF target[1] = "role" /\ target[2] \in ClaimRoles
        THEN PermissionOverwrite(IF overwrites[target].view_channel # "deny"
                                 THEN "allow" ELSE "deny", "allow")
        ELSE IF overwrites[target].send_messages # "unset"
        THEN [overwrites[target] EXCEPT !.send_messages = IF lock THEN "deny" ELSE "allow"]
        ELSE overwrites[target]]

\* ConfirmCloseView.confirm up to the await in _lock_channel; a press by
\* anybody but the requester is answered with send_message(ephemeral=False)
confirm_close ==
    /\ program = "ticketing"
    /\ \E t \in 1..MaxTasks, u \in Users :
          /\ tasks[t].kind = "confirm_close"
          /\ tasks[t].pc = "wait"
          /\ IF u # tasks[t].actor
             THEN /\ Respond("confirm_close", "not_the_confirming_user", FALSE)
                  /\ UNCHANGED tasks
             ELSE /\ Goto(t, [kind |-> "confirm_close", pc |-> "lock", actor |-> tasks[t].actor,
                              ch |-> tasks[t].ch, view |-> tasks[t].view,
                              overwrites |-> lock_channel(channels[tasks[t].ch].overwrites, TRUE)])
                  /\ UNCHANGED resp
    /\ UNCHANGED <<codec, program, views, store, channels, obs, allocs>>

\* channel.edit(overwrites=...) of _lock_channel is done: parent.closed
confirm_close_locked ==
    /\ program = "ticketing"
    /\ \E t \in 1..MaxTasks :
          /\ tasks[t].kind = "confirm_close"
          /\ tasks[t].pc = "lock"
          /\ LET ch == tasks[t].ch
             IN  IF ~channels[ch].exists
                 THEN Crash(t, "close") /\ UNCHANGED <<channels, views>>
                 ELSE /\ channels' = [channels EXCEPT ![ch].locked = TRUE,
                                                       ![ch].overwrites = tasks[t].overwrites]
                      /\ views' = SetView(tasks[t].view,
                                          [ViewOf(tasks[t].view) EXCEPT !.closed = TRUE])
                      /\ obs' = IF channels[ch].locked THEN obs
                                ELSE [obs EXCEPT ![ch].before_close = channels[ch].overwrites]
                      /\ Respond("close", "ok", FALSE)
                      /\ Done(t)
    /\ UNCHANGED <<codec, program, store, allocs>>

\* the guards of TicketChannelView.reopen_ticket
ReopenTicketGuard(u, ch) ==
    IF ~ViewOf(ViewRef(ch)).closed THEN "not_closed"
    ELSE IF ~IsStaff(u) THEN "staff_only"
    ELSE "ok"

\* TicketChannelView.reopen_ticket up to the await in _lock_channel
reopen_ticket ==
    /\ program = "ticketing"
    /\ HasFreeSlot
    /\ \E u \in Users, ch \in ChannelIds :
          /\ channels[ch].exists
          /\ IF ReopenTicketGuard(u, ch) # "ok"
             THEN Reject("reopen", ReopenTicketGuard(u, ch))
             ELSE /\ Start([kind |-> "reopen", pc |-> "unlock", actor |-> u, ch |-> ch,
                            view |-> ViewRef(ch),
                            overwrites |-> lock_channel(channels[ch].overwrites, FALSE)])
                  /\ UNCHANGED <<codec, program, views, store, channels, obs, allocs, resp>>

\* channel.edit(overwrites=...) of _lock_channel is done: self.closed = False
reopen_ticket_unlocked ==
    /\ program = "ticketing"
    /\ \E t \in 1..MaxTasks :
          /\ tasks[t].kind = "reopen"
          /\ LET ch == tasks[t].ch
             IN  IF ~channels[ch].exists
                 THEN Crash(t, "reopen") /\ UNCHANGED <<channels, views>>
                 ELSE /\ channels' = [channels EXCEPT ![ch].locked = FALSE,
                                                       ![ch].overwrites = tasks[t].overwrites]
                      /\ views' = SetView(tasks[t].view,
                                          [ViewOf(tasks[t].view) EXCEPT !.closed = FALSE])
                      /\ Respond("reopen", "ok", FALSE)
                      /\ Done(t)
                      /\ UNCHANGED obs
    /\ UNCHANGED <<codec, program, store, allocs>>

\* the guards of TicketChannelView.dm_feedback before its one-time check
FeedbackGuard(u, ch) ==
    LET view == ViewOf(ViewRef(ch))
    IN  IF ~Truthy(view.claimer_id) \/ PyInt(u) # view.claimer_id THEN "claimer_only"
        ELSE IF ~view.closed THEN "not_closed"
        ELSE "ok"

\* TicketChannelView.dm_feedback: answers with the feedback modal
dm_feedback ==
    /\ program = "ticketing"
    /\ \E u \in Users, ch \in ChannelIds :
          /\ channels[ch].exists
          /\ Respond("feedback", IF FeedbackGuard(u, ch) # "ok"
                                  THEN FeedbackGuard(u, ch) ELSE "modal", TRUE)
    /\ UNCHANGED <<codec, program, views, store, channels, tasks, obs, allocs>>

\* cfg.get("delete_roles", []) of delete_ticket: the panel is looked up
\* under the view's own channel_id
DeleteRoles(ref) ==
    IF ref = 0 \/ store.channel_meta[ref].panel_name \notin DOMAIN store.panels
    THEN {}
    ELSE store.panels[store.channel_meta[ref].panel_name].delete_roles

\* TicketChannelView.delete_ticket: answers with a ConfirmDeleteView; no
\* member of the model is in OWNER_IDS
delete_ticket ==
    /\ program = "ticketing"
    /\ HasFreeSlot
    /\ \E u \in Users, ch \in ChannelIds :
          /\ channels[ch].exists
          /\ IF ~(administrator(u) \/ DeleteRoles(ViewRef(ch)) \cap MemberRoles(u) # {})
             THEN Reject("delete", "not_allowed")
             ELSE /\ obs[ch].transcripts < MaxTranscripts
                  /\ Start([kind |-> "confirm_delete", pc |-> "wait", actor |-> u, ch |-> ch])
                  /\ Respond("delete", "confirm", TRUE)
                  /\ UNCHANGED <<codec, program, views, store, channels, obs, allocs>>

\* ConfirmDeleteView.confirm, pressed by the requester, up to the first
\* await of _log_and_delete on channel.history
confirm_delete ==
    /\ program = "ticketing"
    /\ \E t \in 1..MaxTasks :
          /\ tasks[t].kind = "confirm_delete"
          /\ tasks[t].pc = "wait"
          /\ Goto(t, [tasks[t] EXCEPT !.pc = "history"])
    /\ UNCHANGED <<codec, program, views, store, channels, obs, allocs, resp>>

\* logs_id of _log_and_delete: the log channel of the room's panel
LogsId(ch) ==
    IF store.channel_meta[ch].panel_name \in DOMAIN store.panels
    THEN PyInt(store.panels[store.channel_meta[ch].panel_name].log_channel)
    ELSE PyNone

\* _log_and_delete after channel.history: logs is guild.get_channel(logs_id),
\* None once the log channel is gone from the guild
log_and_delete_history ==
    /\ program = "ticketing"
    /\ \E t \in 1..MaxTasks, log_channel_exists \in BOOLEAN :
          /\ tasks[t].kind = "confirm_delete"
          /\ tasks[t].pc = "history"
          /\ IF ~channels[tasks[t].ch].exists
             THEN Crash(t, "delete")
             ELSE /\ Goto(t, [tasks[t] EXCEPT
                                !.pc = IF Truthy(LogsId(tasks[t].ch)) /\ log_channel_exists
                                       THEN "export" ELSE "delete"])
                  /\ UNCHANGED <<obs, resp>>
    /\ UNCHANGED <<codec, program, views, store, channels, allocs>>

\* chat_exporter.export returned (a page or nothing) or raised
log_and_delete_exported ==
    /\ program = "ticketing"
    /\ \E t \in 1..MaxTasks, outcome \in {"ok", "raises"} :
          /\ tasks[t].kind = "confirm_delete"
          /\ tasks[t].pc = "export"
          /\ IF outcome = "raises" \/ ~channels[tasks[t].ch].exists
             THEN Crash(t, "delete")
             ELSE Goto(t, [tasks[t] EXCEPT !.pc = "send"]) /\ UNCHANGED <<obs, resp>>
    /\ UNCHANGED <<codec, program, views, store, channels, allocs>>

\* logs.send(file=transcript_file, ...) returned or raised
log_and_delete_sent ==
    /\ program = "ticketing"
    /\ \E t \in 1..MaxTasks, outcome \in {"ok", "raises"} :
          /\ tasks[t].kind = "confirm_delete"
          /\ tasks[t].pc = "send"
          /\ IF outcome = "raises"
             THEN Crash(t, "delete")
             ELSE /\ obs' = [obs EXCEPT ![tasks[t].ch].transcripts = @ + 1]
                  /\ Goto(t, [tasks[t] EXCEPT !.pc = "delete"])
                  /\ UNCHANGED resp
    /\ UNCHANGED <<codec, program, views, store, channels, allocs>>

\* channel.delete() returned or raised
log_and_delete_deleted ==
    /\ program = "ticketing"
    /\ \E t \in 1..MaxTasks, outcome \in {"ok", "refused"} :
          /\ tasks[t].kind = "confirm_delete"
          /\ tasks[t].pc = "delete"
          /\ LET ch == tasks[t].ch
             IN  IF outcome = "refused" \/ ~channels[ch].exists
                 THEN Crash(t, "delete") /\ UNCHANGED channels
                 ELSE /\ channels' = [channels EXCEPT ![ch].exists = FALSE]
                      /\ obs' = [obs EXCEPT ![ch].deletes = @ + 1]
                      /\ Done(t)
                      /\ UNCHANGED resp
    /\ UNCHANGED <<codec, program, views, store, allocs>>

-----------------------------------------------------------------------------
(* cogs/ticketing.py: the review prompt that ConfirmCloseView.confirm posts
   for the opener. views.review is the ReviewView of the prompt, store.review
   the good and bad counts of the claimer's roster entry, store.roster_autopost
   whether /ticket_roster has set up the roster message *)

\* largest number of reviews counted for one prompt
MaxReviews == 3

\* ReviewView.__init__ for a ticket of opener_id, claimed by staff_id
ReviewView(opener_id, staff_id) ==
    [opener_id |-> opener_id, staff_id |-> staff_id, used |-> FALSE]

\* record_review up to its await: entry["good"] += 1 or entry["bad"] += 1
record_review(entry, positive) ==
    IF positive THEN [entry EXCEPT !.good = @ + 1] ELSE [entry EXCEPT !.bad = @ + 1]

\* ReviewView.thumbs_up and thumbs_down: _guard, then _finalize up to its
\* first suspension. record_review counts and saves, then update_roster_message
\* returns at once when no roster message is set up, so that _used is set
\* before the await on message.edit; else it awaits the roster message
review_click ==
    /\ program = "ticketing"
    /\ HasFreeSlot
    /\ \E u \in Users, positive \in BOOLEAN :
          IF u # views.review.opener_id
          THEN Reject("review", "not_opener")
          ELSE IF views.review.used
          THEN Reject("review", "already_submitted")
          ELSE /\ store.review.good + store.review.bad < MaxReviews
               /\ store' = [store EXCEPT !.review = record_review(@, positive)]
               /\ views' = [views EXCEPT
                              !.review.used = IF store.roster_autopost THEN @ ELSE TRUE]
               /\ Start([kind |-> "review", pc |-> IF store.roster_autopost THEN "roster" ELSE "edit",
                         actor |-> u, ch |-> 1, positive |-> positive])
               /\ UNCHANGED <<codec, program, channels, obs, allocs, resp>>

\* update_roster_message returns, and _finalize sets _used and awaits
\* message.edit; or it raises (fetch_message, msg.edit and channel.send are
\* not guarded) and the callback ends there
review_roster_updated ==
    /\ program = "ticketing"
    /\ \E t \in 1..MaxTasks, roster_ok \in BOOLEAN :
          /\ tasks[t].kind = "review" /\ tasks[t].pc = "roster"
          /\ IF roster_ok
             THEN /\ views' = [views EXCEPT !.review.used = TRUE]
                  /\ Goto(t, [tasks[t] EXCEPT !.pc = "edit"])
                  /\ UNCHANGED <<obs, resp>>
             ELSE Crash(t, "review") /\ UNCHANGED views
    /\ UNCHANGED <<codec, program, store, channels, allocs>>

\* message.edit(view=self) returns or raises HTTPException; the opener is
\* thanked
review_answered ==
    /\ program = "ticketing"
    /\ \E t \in 1..MaxTasks :
          /\ tasks[t].kind = "review" /\ tasks[t].pc = "edit"
          /\ Respond("review", "thanks", TRUE)
          /\ Done(t)
    /\ UNCHANGED <<codec, program, views, store, channels, obs, allocs>>

-----------------------------------------------------------------------------
(* cogs/applications.py: the ticket counter of a guild. GuildConfig objects
   live in store.objs and are referred to by their index; _guild_cache holds
   the index of the cached object, 0 while the guild is not cached; db is the
   app_config row of the guild *)

\* the guild's app_config row and an empty _guild_cache, as after a restart
AppStoreInit ==
    [db    |-> [configured |-> TRUE, ticket_counter |-> 0],
     objs  |-> <<>>,
     cache |-> 0]

\* ApplicationSubmitButton.callback up to the first await: get_config
\* returns the cached object at once, or awaits the SELECT
app_submit ==
    /\ program = "applications"
    /\ HasFreeSlot
    /\ \E u \in Users :
          Start(IF store.cache # 0
                THEN [kind |-> "app_submit", pc |-> "defer", actor |-> u, cfg |-> store.cache]
                ELSE [kind |-> "app_submit", pc |-> "select", actor |-> u])
    /\ UNCHANGED <<codec, program, views, store, channels, obs, allocs, resp>>

\* get_config after the SELECT: GuildConfig.from_row makes a new object and
\* puts it in the cache; without a row the callback answers and returns
app_get_config ==
    /\ program = "applications"
    /\ \E t \in 1..MaxTasks :
          /\ tasks[t].kind = "app_submit" /\ tasks[t].pc = "select"
          /\ IF ~store.db.configured
             THEN /\ Respond("submit_application", "not_configured", TRUE)
                  /\ Done(t)
                  /\ UNCHANGED store
             ELSE /\ store' = [store EXCEPT
                                 !.objs = Append(@, [ticket_counter |-> store.db.ticket_counter]),
                                 !.cache = Len(store.objs) + 1]
                  /\ Goto(t, [kind |-> "app_submit", pc |-> "defer", actor |-> tasks[t].actor,
                              cfg |-> Len(store.objs) + 1])
                  /\ UNCHANGED resp
    /\ UNCHANGED <<codec, program, views, channels, obs, allocs>>

\* response.defer is done; create_ticket_channel calls next_ticket_number:
\* cfg.ticket_counter += 1, then the await on upsert_config
next_ticket_number ==
    /\ program = "applications"
    /\ \E t \in 1..MaxTasks :
          /\ tasks[t].kind = "app_submit" /\ tasks[t].pc = "defer"
          /\ store.objs[tasks[t].cfg].ticket_counter < MaxTickets
          /\ store' = [store EXCEPT !.objs[tasks[t].cfg].ticket_counter = @ + 1]
          /\ Goto(t, [tasks[t] EXCEPT !.pc = "upsert"])
    /\ UNCHANGED <<codec, program, views, channels, obs, allocs, resp>>

\* upsert_config: the INSERT ... ON CONFLICT runs with cfg.ticket_counter as
\* it is when db.execute is called
upsert_config ==
    /\ program = "applications"
    /\ \E t \in 1..MaxTasks :
          /\ tasks[t].kind = "app_submit" /\ tasks[t].pc = "upsert"
          /\ store' = [store EXCEPT
                         !.db.ticket_counter = store.objs[tasks[t].cfg].ticket_counter]
          /\ Goto(t, [tasks[t] EXCEPT !.pc = "commit"])
    /\ UNCHANGED <<codec, program, views, channels, obs, allocs, resp>>

\* the commit returns: upsert_config caches cfg, next_ticket_number returns
\* cfg.ticket_counter as it is now, and create_ticket_channel awaits
\* create_text_channel with that number in the name
next_ticket_number_return ==
    /\ program = "applications"
    /\ \E t \in 1..MaxTasks :
          /\ tasks[t].kind = "app_submit" /\ tasks[t].pc = "commit"
          /\ store' = [store EXCEPT !.cache = tasks[t].cfg]
          /\ allocs' = Append(allocs, store.objs[tasks[t].cfg].ticket_counter)
          /\ Goto(t, [kind |-> "app_submit", pc |-> "create", actor |-> tasks[t].actor,
                      cfg |-> tasks[t].cfg, idx |-> store.objs[tasks[t].cfg].ticket_counter])
    /\ UNCHANGED <<codec, program, views, channels, obs, resp>>

\* create_text_channel returns the room named f"{idx:03d}-{opener}"
create_ticket_channel ==
    /\ program = "applications"
    /\ \E t \in 1..MaxTasks :
          /\ tasks[t].kind = "app_submit" /\ tasks[t].pc = "create"
          /\ channels' = Append(channels, [number |-> tasks[t].idx, opener |-> tasks[t].actor]
                                            @@ NewChannel(<<>>))
          /\ obs' = Append(obs, ObsInit)
          /\ Respond("submit_application", "ticket_created", TRUE)
          /\ Done(t)
    /\ UNCHANGED <<codec, program, views, store, allocs>>

-----------------------------------------------------------------------------
(* Restart: the process ends, its callbacks and views are gone, the saved
   store is loaded and the persistent views are registered again *)

\* Bot.setup_hook of newbot.py
setup_hook ==
    /\ program = "newbot"
    /\ views' = [NoViews EXCEPT
                   !.persistent = add_views(<<>>, program, PanelKeys(program, store))]
    /\ tasks' = [t \in 1..MaxTasks |-> Idle]
    /\ UNCHANGED <<codec, program, store, channels, obs, allocs, resp>>

\* load_all followed by the first gcfg: the file as save_all left it, or, when
\* json.load raises on a file that open(CONFIG_PATH, "w") truncated and
\* json.dump had not finished, {} on which ensure_guild sets the defaults
load_all(file_complete, saved) == IF file_complete THEN saved ELSE StoreInit

\* the process of newbot.py dies and is started again. Every command saves
\* before it awaits, so the file holds the store of the moment, unless the
\* process died inside save_all (of /setup, /panel or open_ticket, which can
\* run at any time): then the file is incomplete. Bot.__init__ loads it and
\* setup_hook registers the views of the panels it finds
crash_reload ==
    /\ program = "newbot"
    /\ Len(allocs) < MaxTickets
    /\ \E file_complete \in BOOLEAN :
          /\ store' = load_all(file_complete, store)
          /\ views' = [NoViews EXCEPT
                         !.persistent = add_views(<<>>, program, PanelKeys(program, store'))]
    /\ tasks' = [t \in 1..MaxTasks |-> Idle]
    /\ UNCHANGED <<codec, program, channels, obs, allocs, resp>>

\* Bot.setup_hook of noobbot.py
noobbot_setup_hook ==
    /\ program = "noobbot"
    /\ views' = [NoViews EXCEPT
                   !.persistent = add_views(<<>>, program, PanelKeys(program, store))]
    /\ tasks' = [t \in 1..MaxTasks |-> Idle]
    /\ UNCHANGED <<codec, program, store, channels, obs, allocs, resp>>

\* TicketCog.__init__ and cog_load of cogs/ticketing.py
cog_load ==
    /\ program = "ticketing"
    /\ views' = [NoViews EXCEPT
                   !.persistent = add_views(<<>>, program, PanelKeys(program, store))]
    /\ tasks' = [t \in 1..MaxTasks |-> Idle]
    /\ UNCHANGED <<codec, program, store, channels, obs, allocs, resp>>

-----------------------------------------------------------------------------
(* cogs/coaching.py: the panel and its counter *)

\* /tickets setup
coaching_setup ==
    /\ program = "coaching"
    /\ \E claim_role \in Roles :
          /\ store' = [store EXCEPT
                         !.category_id = PyInt(CategoryId),
                         !.claim_role_id = PyInt(claim_role),
                         !.log_channel_id = PyInt(LogChannelId)]
          /\ Respond("setup", "ok", TRUE)
    /\ UNCHANGED <<codec, program, views, channels, tasks, obs, allocs>>

\* the topic literal of coaching's open_ticket
CoachingTopic(u, counter) ==
    Lit.opener \o <<"=">> \o IntToStr(u) \o <<";", " ">>
        \o Lit.counter \o <<"=">> \o IntToStr(counter) \o <<";", " ">>
        \o Lit.claimed_by \o <<"=">> \o Lit.None

\* PanelView.open_ticket up to the await on create_text_channel
coaching_open_ticket ==
    /\ program = "coaching"
    /\ HasFreeSlot
    /\ \E u \in Users, category_ok \in BOOLEAN :
          IF ~(Truthy(store.category_id) /\ Truthy(store.claim_role_id)
               /\ Truthy(store.log_channel_id))
          THEN Reject("open_ticket", "not_configured")
          ELSE IF ~category_ok
          THEN Reject("open_ticket", "category_unavailable")
          ELSE /\ store.counter < MaxTickets
               /\ store' = [store EXCEPT !.counter = @ + 1]
               /\ Start([kind |-> "open", pc |-> "create", actor |-> u,
                         ticket_seq |-> store.counter + 1,
                         topic |-> CoachingTopic(u, store.counter + 1)])
               /\ allocs' = Append(allocs, store.counter + 1)
               /\ UNCHANGED <<codec, program, views, channels, obs, resp>>

\* create_text_channel completes; the welcome is posted and open_ticket answers
coaching_open_ticket_created ==
    /\ program = "coaching"
    /\ \E t \in 1..MaxTasks :
          /\ tasks[t].kind = "open"
          /\ channels' = Append(channels, NewChannel(tasks[t].topic))
          /\ obs' = Append(obs, ObsInit)
          /\ Respond("open_ticket", "ticket_created", TRUE)
          /\ Done(t)
    /\ UNCHANGED <<codec, program, views, store, allocs>>

-----------------------------------------------------------------------------
(* coachbot.py: the coach application workflow *)

\* datetime.now(timezone.utc).strftime("%Y-%m-%dT%H:%M:%SZ"); the callbacks
\* of one behaviour all run within the same second
NowIso == Stamp(0)

\* str(v) of a decoded field
PyStrOf(v) == IF v = PyNone THEN Lit.None ELSE v.s

\* the admin test of approve and close_and_log
IsCoachAdmin(u) == manage_channels(u) \/ manage_guild(u)

\* /coach_setup: arguments that are left out keep the stored value; the
\* category and the log channel are left out here
coach_setup ==
    /\ program = "coachbot"
    /\ \E roster_channel \in {PyNone, PyInt(RosterChannelId)}, log_channel \in {PyNone} :
          /\ store' = [store EXCEPT
                         !.roster_channel_id = IF Truthy(roster_channel) THEN roster_channel ELSE @,
                         !.log_channel_id = IF Truthy(log_channel) THEN log_channel ELSE @]
          /\ Respond("coach_setup", "ok", TRUE)
    /\ UNCHANGED <<codec, program, views, channels, tasks, obs, allocs>>

\* OpenCoachTicketView.open_ticket up to the await on create_text_channel;
\* category_ok is whether the stored category id still resolves to a category
coach_open_ticket ==
    /\ program = "coachbot"
    /\ HasFreeSlot
    /\ \E u \in Users, category_ok \in BOOLEAN :
          IF ~Truthy(store.category_id)
          THEN Reject("open_ticket", "no_category")
          ELSE IF ~category_ok
          THEN Reject("open_ticket", "category_unavailable")
          ELSE IF \E ch \in ChannelIds :
                     /\ channels[ch].exists
                     /\ IntToStr(u) = PyStrOf(topic_unpack(TopicOf(ch)).opener)
          THEN Reject("open_ticket", "already_open")
          ELSE /\ Len(channels) + Cardinality({t \in 1..MaxTasks : tasks[t].kind = "coach_open"})
                    < MaxRooms
               /\ Start([kind |-> "coach_open", pc |-> "create", actor |-> u,
                         topic |-> topic_pack(u, NowIso, PyNone, PyNone, PyNone, PyNone)])
               /\ UNCHANGED <<codec, program, views, store, channels, obs, allocs, resp>>

\* create_text_channel completes; open_ticket answers and posts the template
coach_open_ticket_created ==
    /\ program = "coachbot"
    /\ \E t \in 1..MaxTasks :
          /\ tasks[t].kind = "coach_open"
          /\ channels' = Append(channels, NewChannel(tasks[t].topic))
          /\ obs' = Append(obs, ObsInit)
          /\ Respond("open_ticket", "ticket_created", TRUE)
          /\ Done(t)
    /\ UNCHANGED <<codec, program, views, store, allocs>>

\* the opener writes a message with content into the room; the history reads
\* of submit find the newest one
post_message ==
    /\ program \in {"coachbot", "noobbot"}
    /\ \E ch \in ChannelIds :
          /\ channels[ch].exists
          /\ channels[ch].latest < MaxMessages
          /\ channels' = [channels EXCEPT ![ch].latest = @ + 1]
    /\ UNCHANGED <<codec, program, views, store, tasks, obs, allocs, resp>>

\* CoachControlsView.submit up to the await on channel.history
submit ==
    /\ program = "coachbot"
    /\ HasFreeSlot
    /\ \E ch \in ChannelIds :
          IF ~IsTextChannel(ch)
          THEN Reject("submit", "not_a_ticket_channel")
          ELSE LET meta == topic_unpack(TopicOf(ch))
               IN  \E u \in Users :
                     IF IntToStr(u) # PyStrOf(meta.opener)
                     THEN Reject("submit", "not_opener")
                     ELSE /\ Start([kind |-> "submit", pc |-> "history", actor |-> u, ch |-> ch,
                                    created |-> meta.created,
                                    resubmit |-> Truthy(meta.submitted)])
                          /\ UNCHANGED <<codec, program, views, store, channels, obs, allocs, resp>>

\* the history is read: without a message of the opener submit answers and
\* returns, else it builds the new topic and awaits channel.edit
submit_history ==
    /\ program = "coachbot"
    /\ \E t \in 1..MaxTasks :
          /\ tasks[t].kind = "submit" /\ tasks[t].pc = "history"
          /\ LET ch == tasks[t].ch
                 created == tasks[t].created
             IN  IF ~channels[ch].exists
                 THEN Crash(t, "submit")
                 ELSE IF channels[ch].latest = 0
                 THEN /\ Done(t)
                      /\ Respond("submit", "no_message", TRUE)
                      /\ UNCHANGED obs
                 ELSE /\ Goto(t, [kind |-> "submit", pc |-> "edit", actor |-> tasks[t].actor,
                                  ch |-> ch, resubmit |-> tasks[t].resubmit,
                                  new_topic |->
                                      topic_pack(tasks[t].actor,
                                                 IF Truthy(created) THEN created.s ELSE NowIso,
                                                 PyStr(NowIso), PyInt(channels[ch].latest),
                                                 PyNone, PyNone)])
                      /\ UNCHANGED <<obs, resp>>
    /\ UNCHANGED <<codec, program, views, store, channels, allocs>>

\* channel.edit returns or raises (both attempts are wrapped in except
\* Exception: pass), then submit answers with success; on a room that is gone
\* the closing channel.send raises after the answer
submit_edited ==
    /\ program = "coachbot"
    /\ \E t \in 1..MaxTasks, edit_ok \in BOOLEAN :
          /\ tasks[t].kind = "submit" /\ tasks[t].pc = "edit"
          /\ LET ch == tasks[t].ch
             IN  /\ channels' = IF channels[ch].exists /\ edit_ok
                                THEN [channels EXCEPT ![ch].topic = tasks[t].new_topic]
                                ELSE channels
                 /\ resp' = [op |-> "submit",
                             code |-> IF channels[ch].exists THEN "submitted"
                                      ELSE "submitted_then_raised",
                             ephemeral |-> TRUE,
                             resubmit |-> tasks[t].resubmit]
                 /\ Done(t)
    /\ UNCHANGED <<codec, program, views, store, obs, allocs>>

\* CoachControlsView.approve up to the await on fetch_message
approve ==
    /\ program = "coachbot"
    /\ HasFreeSlot
    /\ \E ch \in ChannelIds :
          IF ~IsTextChannel(ch)
          THEN Reject("approve", "not_a_ticket_channel")
          ELSE LET meta == topic_unpack(TopicOf(ch))
               IN  \E u \in Users :
                     IF ~IsCoachAdmin(u)
                     THEN Reject("approve", "admins_only")
                     ELSE IF ~Truthy(meta.submitted) \/ ~Truthy(meta.smsg)
                     THEN Reject("approve", "nothing_to_approve")
                     ELSE IF Truthy(meta.approved) /\ Truthy(meta.entry)
                     THEN Reject("approve", "already_approved")
                     ELSE IF ~CanInt(meta.smsg.s)
                     THEN Reject("approve", "couldnt_load")
                     ELSE /\ Start([kind |-> "approve", pc |-> "fetch", actor |-> u, ch |-> ch,
                                    meta |-> [opener |-> meta.opener, created |-> meta.created,
                                              submitted |-> meta.submitted, smsg |-> meta.smsg],
                                    posted_before |-> obs[ch].posts > 0])
                          /\ UNCHANGED <<codec, program, views, store, channels, obs, allocs, resp>>

\* the store with the roster entry counter left as it was
TakeEntryId_keep(g) == g

\* g["next_entry_id"] = entry_id + 1
TakeEntryId(g) == [g EXCEPT !.next_entry_id = @ + 1]

\* fetch_message returns or raises; then the roster channel is looked up, the
\* entry id is taken and saved, and approve awaits roster_channel.send
approve_fetched ==
    /\ program = "coachbot"
    /\ \E t \in 1..MaxTasks, fetch_ok \in BOOLEAN :
          /\ tasks[t].kind = "approve" /\ tasks[t].pc = "fetch"
          /\ LET meta == tasks[t].meta
             IN  IF ~channels[tasks[t].ch].exists \/ ~fetch_ok
                 THEN /\ Done(t)
                      /\ Respond("approve", "couldnt_load", TRUE)
                      /\ UNCHANGED store
                 ELSE IF ~Truthy(store.roster_channel_id)
                 THEN /\ Done(t)
                      /\ Respond("approve", "roster_not_configured", TRUE)
                      /\ UNCHANGED store
                 ELSE /\ store.next_entry_id <= MaxEntries
                      /\ store' = TakeEntryId(store)
                      /\ IF Truthy(meta.opener) /\ ~CanInt(meta.opener.s)
                         THEN /\ Done(t)
                              /\ Respond("approve", "unhandled_exception", TRUE)
                         ELSE /\ Goto(t, [kind |-> "approve", pc |-> "post",
                                          actor |-> tasks[t].actor, ch |-> tasks[t].ch,
                                          meta |-> meta,
                                          posted_before |-> tasks[t].posted_before,
                                          entry_id |-> store.next_entry_id,
                                          opener_id |-> IF Truthy(meta.opener)
                                                        THEN IntOf(meta.opener.s)
                                                        ELSE tasks[t].actor])
                              /\ UNCHANGED resp
    /\ UNCHANGED <<codec, program, views, channels, obs, allocs>>

\* the roster message is published; approve builds the new topic and awaits
\* channel.edit
approve_posted ==
    /\ program = "coachbot"
    /\ \E t \in 1..MaxTasks :
          /\ tasks[t].kind = "approve" /\ tasks[t].pc = "post"
          /\ LET meta == tasks[t].meta
             IN  Goto(t, [kind |-> "approve", pc |-> "edit",
                          actor |-> tasks[t].actor, ch |-> tasks[t].ch,
                          posted_before |-> tasks[t].posted_before,
                          new_topic |->
                              topic_pack(tasks[t].opener_id,
                                         IF Truthy(meta.created) THEN meta.created.s ELSE NowIso,
                                         meta.submitted, PyInt(IntOf(meta.smsg.s)),
                                         PyStr(NowIso), PyInt(tasks[t].entry_id))])
          /\ obs' = [obs EXCEPT ![tasks[t].ch].posts = @ + 1]
    /\ UNCHANGED <<codec, program, views, store, channels, allocs, resp>>

\* channel.edit returns or raises (except Exception: pass), then approve
\* answers with success
approve_edited ==
    /\ program = "coachbot"
    /\ \E t \in 1..MaxTasks, edit_ok \in BOOLEAN :
          /\ tasks[t].kind = "approve" /\ tasks[t].pc = "edit"
          /\ LET ch == tasks[t].ch
             IN  /\ channels' = IF channels[ch].exists /\ edit_ok
                                THEN [channels EXCEPT ![ch].topic = tasks[t].new_topic]
                                ELSE channels
                 /\ resp' = [op |-> "approve",
                             code |-> IF channels[ch].exists THEN "approved"
                                      ELSE "approved_then_raised",
                             ephemeral |-> TRUE,
                             posted_before |-> tasks[t].posted_before]
                 /\ Done(t)
    /\ UNCHANGED <<codec, program, views, store, obs, allocs>>

\* CoachControlsView.close_and_log up to the await on response.defer; its
\* continuations are close_history, close_deliver, close_notice, close_delete
close_and_log ==
    /\ program = "coachbot"
    /\ HasFreeSlot
    /\ \E u \in Users, ch \in ChannelIds :
          IF ~IsTextChannel(ch)
          THEN Reject("close", "not_a_ticket_channel")
          ELSE IF ~IsCoachAdmin(u)
          THEN Reject("close", "admins_only")
          ELSE IF LET opener_id == topic_unpack(TopicOf(ch)).opener
                  IN  Truthy(opener_id) /\ ~CanInt(opener_id.s)
          THEN Reject("close", "unhandled_exception")
          ELSE /\ obs[ch].transcripts < MaxTranscripts
               /\ Start([kind |-> "close", pc |-> "history", actor |-> u, ch |-> ch,
                         to_log |-> FALSE])
               /\ UNCHANGED <<codec, program, views, store, channels, obs, allocs, resp>>

-----------------------------------------------------------------------------
(* noobbot.py: the coach application workflow *)

\* the topic literal of open_application
NoobCoachTopic(u) ==
    Lit.coach \o <<"|">> \o Lit.opener \o <<"=">> \o IntToStr(u)
            \o <<"|">> \o Lit.submitted \o <<"=">> \o Lit.none
            \o <<"|">> \o Lit.approved \o <<"=">> \o Lit.none

\* CoachControlsView.submit of noobbot.py up to the await on channel.history
noobbot_submit ==
    /\ program = "noobbot"
    /\ HasFreeSlot
    /\ \E u \in Users, ch \in ChannelIds :
          /\ channels[ch].exists
          /\ IF ~Contains(channels[ch].topic, Lit.opener \o <<"=">> \o IntToStr(u))
             THEN Reject("submit", "not_opener")
             ELSE /\ Start([kind |-> "submit", pc |-> "history", actor |-> u, ch |-> ch,
                            topic |-> channels[ch].topic])
                  /\ UNCHANGED <<codec, program, views, store, channels, obs, allocs, resp>>

\* the history is read: at the first message of the opener with content the
\* new topic is built from the topic read at the start
noobbot_submit_history ==
    /\ program = "noobbot"
    /\ \E t \in 1..MaxTasks :
          /\ tasks[t].kind = "submit" /\ tasks[t].pc = "history"
          /\ LET ch == tasks[t].ch
             IN  IF ~channels[ch].exists
                 THEN Crash(t, "submit")
                 ELSE IF channels[ch].latest = 0
                 THEN /\ Done(t)
                      /\ Respond("submit", "no_message", TRUE)
                      /\ UNCHANGED obs
                 ELSE /\ Goto(t, [kind |-> "submit", pc |-> "edit", actor |-> tasks[t].actor,
                                  ch |-> ch, topic |-> tasks[t].topic,
                                  new_topic |->
                                      Replace(tasks[t].topic,
                                              Lit.submitted \o <<"=">> \o Lit.none,
                                              Lit.submitted \o <<"=">>
                                                  \o IntToStr(channels[ch].latest))])
                      /\ UNCHANGED <<obs, resp>>
    /\ UNCHANGED <<codec, program, views, store, channels, allocs>>

\* channel.edit returns or raises, the notice is posted, submit answers
noobbot_submit_edited ==
    /\ program = "noobbot"
    /\ \E t \in 1..MaxTasks, edit_ok \in BOOLEAN :
          /\ tasks[t].kind = "submit" /\ tasks[t].pc = "edit"
          /\ LET ch == tasks[t].ch
             IN  IF ~channels[ch].exists \/ ~edit_ok
                 THEN Crash(t, "submit") /\ UNCHANGED channels
                 ELSE /\ channels' = [channels EXCEPT ![ch].topic = tasks[t].new_topic]
                      /\ resp' = [op |-> "submit", code |-> "submitted", ephemeral |-> TRUE,
                                  resubmit |-> ~Contains(tasks[t].topic,
                                                         Lit.submitted \o <<"=">> \o Lit.none)]
                      /\ Done(t)
                      /\ UNCHANGED obs
    /\ UNCHANGED <<codec, program, views, store, allocs>>

\* the loop of approve over topic.split("|"): int() of the opener segment
\* raises on a non-number, int() of the submitted segment is guarded
NoobApproveParse(topic) ==
    LET parts == Split(topic, <<"|">>)
        op == {k \in 1..Len(parts) : StartsWith(parts[k], Lit.opener \o <<"=">>)}
        su == {k \in 1..Len(parts) :
                  /\ ~StartsWith(parts[k], Lit.opener \o <<"=">>)
                  /\ StartsWith(parts[k], Lit.submitted \o <<"=">>)
                  /\ CanInt(Split(parts[k], <<"=">>)[2])}
        last(S) == CHOOSE k \in S : \A q \in S : q <= k
    IN  [raised |-> \E k \in op : ~CanInt(Split(parts[k], <<"=">>)[2]),
         opener_id |-> IF op = {} THEN PyNone
                       ELSE PyInt(IntOf(Split(parts[last(op)], <<"=">>)[2])),
         submitted_msg_id |-> IF su = {} THEN PyNone
                              ELSE PyInt(IntOf(Split(parts[last(su)], <<"=">>)[2]))]

\* CoachControlsView.approve of noobbot.py up to the await on fetch_message
noobbot_approve ==
    /\ program = "noobbot"
    /\ HasFreeSlot
    /\ \E u \in Users, ch \in ChannelIds :
          /\ channels[ch].exists
          /\ IF ~manage_channels(u)
             THEN Reject("approve", "admins_only")
             ELSE IF ~Truthy(store.coach.roster_channel_id)
             THEN Reject("approve", "no_roster")
             ELSE LET r == NoobApproveParse(channels[ch].topic)
                  IN  IF r.raised
                      THEN Reject("approve", "unhandled_exception")
                      ELSE IF ~Truthy(r.submitted_msg_id)
                      THEN Reject("approve", "not_submitted")
                      ELSE /\ Start([kind |-> "approve", pc |-> "fetch", actor |-> u,
                                     ch |-> ch, posted_before |-> obs[ch].posts > 0])
                           /\ UNCHANGED <<codec, program, views, store, channels, obs, allocs, resp>>

\* fetch_message returns or raises NotFound; then approve awaits
\* roster_ch.send
noobbot_approve_fetched ==
    /\ program = "noobbot"
    /\ \E t \in 1..MaxTasks, fetch_ok \in BOOLEAN :
          /\ tasks[t].kind = "approve" /\ tasks[t].pc = "fetch"
          /\ IF ~channels[tasks[t].ch].exists \/ ~fetch_ok
             THEN /\ Done(t)
                  /\ Respond("approve", "message_not_found", TRUE)
             ELSE /\ Goto(t, [tasks[t] EXCEPT !.pc = "post"])
                  /\ UNCHANGED resp
    /\ UNCHANGED <<codec, program, views, store, channels, obs, allocs>>

\* the roster message is published and approve answers
noobbot_approve_posted ==
    /\ program = "noobbot"
    /\ \E t \in 1..MaxTasks :
          /\ tasks[t].kind = "approve" /\ tasks[t].pc = "post"
          /\ obs[tasks[t].ch].posts < MaxEntries
          /\ obs' = [obs EXCEPT ![tasks[t].ch].posts = @ + 1]
          /\ resp' = [op |-> "approve", code |-> "approved", ephemeral |-> TRUE,
                      posted_before |-> tasks[t].posted_before]
          /\ Done(t)
    /\ UNCHANGED <<codec, program, views, store, channels, allocs>>

-----------------------------------------------------------------------------
(* Specifications *)

CodecIdle == codec = [op |-> "idle", done |-> FALSE]

\* Opening tickets on a fresh guild: panels are created, tickets opened
InitOpen ==
    /\ program \in Programs
    /\ CodecIdle
    /\ LiveIdle

NextOpen ==
    \/ panel_cmd
    \/ open_ticket
    \/ open_ticket_created
    \/ tickets_panel
    \/ panel_delete
    \/ noobbot_open_ticket
    \/ noobbot_open_ticket_created
    \/ save_button
    \/ ticketing_open_ticket
    \/ ticketing_open_ticket_created
    \/ coaching_setup
    \/ coaching_open_ticket
    \/ coaching_open_ticket_created

SpecOpen == InitOpen /\ [][NextOpen]_vars

\* One ticket room. newbot and noobbot: the guild after /panel with RoleA
\* and one open_ticket. coachbot: the guild after /coach_setup, with or
\* without a log channel, and one opened application.
InitRoom ==
    /\ program \in {"newbot", "noobbot", "coachbot"}
    /\ CodecIdle
    /\ \/ /\ program = "newbot"
          /\ store = [StoreInit EXCEPT
                        !.panels = <<[category_id |-> PyInt(CategoryId), role_ids |-> {RoleA}]>>,
                        !.next_panel_id = 2,
                        !.next_ticket_seq = 2]
          /\ \E u \in Users : channels = <<NewChannel(meta_pack(1, 1, u, PyNone))>>
          /\ allocs = <<1>>
       \/ /\ program = "noobbot"
          /\ store = [NoobStoreInit EXCEPT
                        !.tickets.panels = <<[category_id |-> PyInt(CategoryId),
                                              role_ids |-> {RoleA}]>>,
                        !.tickets.next_panel_id = 2,
                        !.tickets.next_ticket_seq = 2]
          /\ \E u \in Users : channels = <<NewChannel(NoobTopic(1, 1, u))>>
          /\ allocs = <<1>>
       \/ /\ program = "coachbot"
          /\ \E log_channel \in {PyNone, PyInt(LogChannelId)} :
                store = [CoachStoreInit EXCEPT !.category_id = PyInt(CategoryId),
                                               !.log_channel_id = log_channel]
          /\ \E u \in Users :
                channels = <<NewChannel(topic_pack(u, NowIso, PyNone, PyNone, PyNone, PyNone))>>
          /\ allocs = <<>>
    /\ tasks = [t \in 1..MaxTasks |-> Idle]
    /\ obs = <<ObsInit>>
    /\ resp = NoResp
    /\ views = LiveViews(program, store)

NextRoom ==
    \/ setup_cmd
    \/ claim
    \/ claim_edited
    \/ close
    \/ close_history
    \/ close_deliver
    \/ close_notice
    \/ close_delete
    \/ tickets_setup
    \/ claim_ticket
    \/ claim_ticket_edited
    \/ close_ticket
    \/ close_ticket_history
    \/ close_ticket_deliver
    \/ close_ticket_delete
    \/ close_and_log

SpecRoom == InitRoom /\ [][NextRoom]_vars

\* One coach application room: the guild after /coach_setup and one
\* application, opened by a plain member or by an admin, with no message yet
InitCoach ==
    /\ program \in {"coachbot", "noobbot"}
    /\ CodecIdle
    /\ store = IF program = "coachbot"
               THEN [CoachStoreInit EXCEPT !.category_id = PyInt(CategoryId)]
               ELSE [NoobStoreInit EXCEPT
                       !.coach.category_id = PyInt(CategoryId),
                       !.coach.roster_channel_id = PyInt(RosterChannelId),
                       !.coach.log_channel_id = PyInt(LogChannelId)]
    /\ \E u \in {1, 2} :
          channels = <<NewChannel(IF program = "coachbot"
                                  THEN topic_pack(u, NowIso, PyNone, PyNone, PyNone, PyNone)
                                  ELSE NoobCoachTopic(u))>>
    /\ tasks = [t \in 1..MaxTasks |-> Idle]
    /\ obs = <<ObsInit>>
    /\ allocs = <<>>
    /\ resp = NoResp
    /\ views = LiveViews(program, store)

NextCoach ==
    \/ coach_setup
    \/ post_message
    \/ submit
    \/ submit_history
    \/ submit_edited
    \/ approve
    \/ approve_fetched
    \/ approve_posted
    \/ approve_edited
    \/ noobbot_submit
    \/ noobbot_submit_history
    \/ noobbot_submit_edited
    \/ noobbot_approve
    \/ noobbot_approve_fetched
    \/ noobbot_approve_posted

SpecCoach == InitCoach /\ [][NextCoach]_vars

\* coachbot.py: applications are opened, submitted and approved in a guild
\* whose category and roster channel are set and that holds one application
\* already submitted by user 1 (message 1)
InitRoster ==
    /\ program = "coachbot"
    /\ CodecIdle
    /\ store = [CoachStoreInit EXCEPT !.category_id = PyInt(CategoryId),
                                      !.roster_channel_id = PyInt(RosterChannelId)]
    /\ channels = <<[NewChannel(topic_pack(1, NowIso, PyStr(NowIso), PyInt(1), PyNone, PyNone))
                      EXCEPT !.latest = 1]>>
    /\ tasks = [t \in 1..MaxTasks |-> Idle]
    /\ obs = <<ObsInit>>
    /\ allocs = <<>>
    /\ resp = NoResp
    /\ views = LiveViews(program, store)

NextRoster ==
    \/ coach_open_ticket
    \/ coach_open_ticket_created
    \/ submit
    \/ submit_history
    \/ submit_edited
    \/ approve
    \/ approve_fetched
    \/ approve_posted
    \/ approve_edited

SpecRoster == InitRoster /\ [][NextRoster]_vars

\* noobbot.py: a guild with one panel, created by /panel with handler role
\* RoleA; the panel is deleted while tickets are opened and claimed
InitPanel ==
    /\ program = "noobbot"
    /\ CodecIdle
    /\ store = [NoobStoreInit EXCEPT
                  !.tickets.next_panel_id = 2,
                  !.tickets.panels = (1 :> [category_id |-> PyInt(CategoryId),
                                            role_ids |-> {RoleA}])]
    /\ channels = <<>>
    /\ tasks = [t \in 1..MaxTasks |-> Idle]
    /\ obs = <<>>
    /\ allocs = <<>>
    /\ resp = NoResp
    /\ views = LiveViews(program, store)

NextPanel ==
    \/ panel_delete
    \/ noobbot_open_ticket
    \/ noobbot_open_ticket_created
    \/ claim_ticket
    \/ claim_ticket_edited

SpecPanel == InitPanel /\ [][NextPanel]_vars

\* cogs/ticketing.py: one ticket room of panel "coaching", opened by user 1
\* in this process; users 2 and 3 are on the roster, user 2 holds the claim
\* role RoleA
InitDesk ==
    /\ program = "ticketing"
    /\ CodecIdle
    /\ \E delete_roles \in {{}, {RoleA}} :
          store = [TicketingStoreInit EXCEPT
                     !.panels = ("coaching" :> [category |-> CategoryId,
                                                view_roles |-> {RoleA},
                                                delete_roles |-> delete_roles,
                                                log_channel |-> LogChannelId]),
                     !.panel_names = <<"coaching">>,
                     !.ticket_counter = PyInt(2),
                     !.channel_meta = <<[ticket_number |-> 1, panel_name |-> "coaching",
                                         opener_id |-> 1, claimer_id |-> PyNone]>>,
                     !.roster = {2, 3},
                     !.claim_role_id = PyInt(RoleA)]
    /\ channels = <<[NewChannel(<<>>) EXCEPT !.overwrites = RoomOverwrites(1, {RoleA})]>>
    /\ tasks = [t \in 1..MaxTasks |-> Idle]
    /\ obs = <<ObsInit>>
    /\ allocs = <<1>>
    /\ resp = NoResp
    /\ views = [LiveViews(program, store) EXCEPT !.rooms = <<TicketChannelView>>]

NextDesk ==
    \/ ticketing_claim
    \/ ticketing_claim_edited
    \/ ticketing_close_ticket
    \/ confirm_close
    \/ confirm_close_locked
    \/ reopen_ticket
    \/ reopen_ticket_unlocked
    \/ dm_feedback
    \/ claim_role_set
    \/ cog_load

SpecDesk == InitDesk /\ [][NextDesk]_vars

\* The same room in a process that is not restarted: it is claimed and
\* deleted through the Delete button
NextShred ==
    \/ save_button
    \/ ticketing_claim
    \/ ticketing_claim_edited
    \/ delete_ticket
    \/ confirm_delete
    \/ log_and_delete_history
    \/ log_and_delete_exported
    \/ log_and_delete_sent
    \/ log_and_delete_deleted

SpecShred == InitDesk /\ [][NextShred]_vars

\* The panels of a guild across restarts: two panels are stored, posted by
\* this process; tickets are opened before and after a restart
InitRestart ==
    /\ program \in {"newbot", "noobbot", "ticketing"}
    /\ CodecIdle
    /\ store = CASE program = "newbot" ->
                      [StoreInit EXCEPT
                         !.panels = <<[category_id |-> PyInt(CategoryId), role_ids |-> {RoleA}],
                                      [category_id |-> PyInt(CategoryId), role_ids |-> {RoleB}]>>,
                         !.next_panel_id = 3]
                 [] program = "noobbot" ->
                      [NoobStoreInit EXCEPT
                         !.tickets.panels = <<[category_id |-> PyInt(CategoryId), role_ids |-> {RoleA}],
                                              [category_id |-> PyInt(CategoryId), role_ids |-> {RoleB}]>>,
                         !.tickets.next_panel_id = 3]
                 [] OTHER ->
                      [TicketingStoreInit EXCEPT
                         !.panels = [n \in PanelNames |->
                                       [category |-> CategoryId, view_roles |-> {RoleA},
                                        delete_roles |-> {}, log_channel |-> LogChannelId]],
                         !.panel_names = <<"coaching", "support">>]
    /\ channels = <<>>
    /\ tasks = [t \in 1..MaxTasks |-> Idle]
    /\ obs = <<>>
    /\ allocs = <<>>
    /\ resp = NoResp
    /\ views = LiveViews(program, store)

NextRestart ==
    \/ setup_hook
    \/ noobbot_setup_hook
    \/ cog_load
    \/ open_ticket
    \/ open_ticket_created
    \/ noobbot_open_ticket
    \/ noobbot_open_ticket_created
    \/ panel_delete
    \/ ticketing_open_ticket
    \/ ticketing_open_ticket_created

SpecRestart == InitRestart /\ [][NextRestart]_vars

\* newbot.py: a guild with two panels, 1 handled by RoleB and 2 by RoleA,
\* and one unclaimed ticket of user 1 on each; the handler roles are
\* replaced while the tickets are claimed
InitRoles ==
    /\ program = "newbot"
    /\ CodecIdle
    /\ store = [StoreInit EXCEPT
                  !.panels = <<[category_id |-> PyInt(CategoryId), role_ids |-> {RoleB}],
                               [category_id |-> PyInt(CategoryId), role_ids |-> {RoleA}]>>,
                  !.next_panel_id = 3,
                  !.next_ticket_seq = 3]
    /\ channels = <<NewChannel(meta_pack(1, 1, 1, PyNone)), NewChannel(meta_pack(2, 2, 1, PyNone))>>
    /\ tasks = [t \in 1..MaxTasks |-> Idle]
    /\ obs = <<ObsInit, ObsInit>>
    /\ allocs = <<1, 2>>
    /\ resp = NoResp
    /\ views = LiveViews(program, store)

NextRoles ==
    \/ panel_roles_cmd
    \/ claim
    \/ claim_edited

SpecRoles == InitRoles /\ [][NextRoles]_vars

\* newbot.py: the guild after /panel with RoleA and one open_ticket of user
\* 1; panels are created and tickets opened while the process may die and
\* be started again
InitCrash ==
    /\ program = "newbot"
    /\ CodecIdle
    /\ store = [StoreInit EXCEPT
                  !.panels = <<[category_id |-> PyInt(CategoryId), role_ids |-> {RoleA}]>>,
                  !.next_panel_id = 2,
                  !.next_ticket_seq = 2]
    /\ channels = <<NewChannel(meta_pack(1, 1, 1, PyNone))>>
    /\ tasks = [t \in 1..MaxTasks |-> Idle]
    /\ obs = <<ObsInit>>
    /\ allocs = <<1>>
    /\ resp = NoResp
    /\ views = LiveViews(program, store)

NextCrash ==
    \/ panel_cmd
    \/ open_ticket
    \/ open_ticket_created
    \/ crash_reload

SpecCrash == InitCrash /\ [][NextCrash]_vars

\* cogs/ticketing.py: two ticket rooms of panel "coaching", opened by users
\* 1 and 2 in this process; user 2 is on the roster and holds the claim role
InitPair ==
    /\ program = "ticketing"
    /\ CodecIdle
    /\ store = [TicketingStoreInit EXCEPT
                  !.panels = ("coaching" :> [category |-> CategoryId,
                                             view_roles |-> {RoleA},
                                             delete_roles |-> {},
                                             log_channel |-> LogChannelId]),
                  !.panel_names = <<"coaching">>,
                  !.ticket_counter = PyInt(3),
                  !.channel_meta = <<[ticket_number |-> 1, panel_name |-> "coaching",
                                      opener_id |-> 1, claimer_id |-> PyNone],
                                     [ticket_number |-> 2, panel_name |-> "coaching",
                                      opener_id |-> 2, claimer_id |-> PyNone]>>,
                  !.roster = {2},
                  !.claim_role_id = PyInt(RoleA)]
    /\ channels = <<[NewChannel(<<>>) EXCEPT !.overwrites = RoomOverwrites(1, {RoleA})],
                    [NewChannel(<<>>) EXCEPT !.overwrites = RoomOverwrites(2, {RoleA})]>>
    /\ tasks = [t \in 1..MaxTasks |-> Idle]
    /\ obs = <<ObsInit, ObsInit>>
    /\ allocs = <<1, 2>>
    /\ resp = NoResp
    /\ views = [LiveViews(program, store) EXCEPT
                  !.rooms = <<TicketChannelView, TicketChannelView>>]

NextPair ==
    \/ ticketing_claim
    \/ ticketing_claim_edited
    \/ ticketing_close_ticket
    \/ confirm_close
    \/ confirm_close_locked
    \/ reopen_ticket
    \/ reopen_ticket_unlocked
    \/ cog_load

SpecPair == InitPair /\ [][NextPair]_vars

\* number of panels of the guild of InitTen
TenPanels == 10

\* newbot.py and noobbot.py: a guild with panels 1 to 10, handled by RoleA,
\* and one ticket, opened on panel 10 by user 1 or 2
InitTen ==
    /\ program \in {"newbot", "noobbot"}
    /\ CodecIdle
    /\ LET panels == [q \in 1..TenPanels |->
                         [category_id |-> PyInt(CategoryId), role_ids |-> {RoleA}]]
       IN  /\ store = IF program = "newbot"
                      THEN [StoreInit EXCEPT !.panels = panels,
                                             !.next_panel_id = TenPanels + 1,
                                             !.next_ticket_seq = 2]
                      ELSE [NoobStoreInit EXCEPT !.tickets.panels = panels,
                                                 !.tickets.next_panel_id = TenPanels + 1,
                                                 !.tickets.next_ticket_seq = 2]
           /\ \E u \in {1, 2} :
                 channels = <<NewChannel(IF program = "newbot"
                                         THEN meta_pack(TenPanels, 1, u, PyNone)
                                         ELSE NoobTopic(TenPanels, 1, u))>>
    /\ tasks = [t \in 1..MaxTasks |-> Idle]
    /\ obs = <<ObsInit>>
    /\ allocs = <<1>>
    /\ resp = NoResp
    /\ views = LiveViews(program, store)

NextTen ==
    \/ open_ticket
    \/ open_ticket_created
    \/ noobbot_open_ticket
    \/ noobbot_open_ticket_created

SpecTen == InitTen /\ [][NextTen]_vars

\* cogs/ticketing.py: the room of InitDesk, claimed by user 2 and closed; the
\* review prompt for opener 1 has been posted; the roster message is set up
\* or not
InitReview ==
    /\ program = "ticketing"
    /\ CodecIdle
    /\ \E roster_autopost \in BOOLEAN :
          store = [review |-> [good |-> 0, bad |-> 0], roster_autopost |-> roster_autopost]
                  @@ [TicketingStoreInit EXCEPT
                        !.panels = ("coaching" :> [category |-> CategoryId,
                                                   view_roles |-> {RoleA},
                                                   delete_roles |-> {},
                                                   log_channel |-> LogChannelId]),
                        !.panel_names = <<"coaching">>,
                        !.ticket_counter = PyInt(2),
                        !.channel_meta = <<[ticket_number |-> 1, panel_name |-> "coaching",
                                            opener_id |-> 1, claimer_id |-> PyInt(2)]>>,
                        !.roster = {2},
                        !.claim_role_id = PyInt(RoleA)]
    /\ channels = <<[NewChannel(<<>>) EXCEPT
                       !.locked = TRUE,
                       !.overwrites = lock_channel(RoomOverwrites(1, {RoleA}), TRUE)]>>
    /\ tasks = [t \in 1..MaxTasks |-> Idle]
    /\ obs = <<[ObsInit EXCEPT !.claims = 1]>>
    /\ allocs = <<1>>
    /\ resp = NoResp
    /\ views = [review |-> ReviewView(1, 2)]
               @@ [LiveViews(program, store) EXCEPT
                     !.rooms = <<[claimer_id |-> PyInt(2), closed |-> TRUE]>>]

NextReview ==
    \/ review_click
    \/ review_roster_updated
    \/ review_answered

SpecReview == InitReview /\ [][NextReview]_vars

\* cogs/applications.py: a guild that is set up or not; its GuildConfig is
\* in the cache (set up in this process) or not (after a restart)
InitApps ==
    /\ program = "applications"
    /\ CodecIdle
    /\ \E configured \in BOOLEAN, cached \in BOOLEAN :
          /\ cached => configured
          /\ store = [AppStoreInit EXCEPT
                        !.db.configured = configured,
                        !.objs = IF cached THEN <<[ticket_counter |-> 0]>> ELSE <<>>,
                        !.cache = IF cached THEN 1 ELSE 0]
    /\ channels = <<>>
    /\ tasks = [t \in 1..MaxTasks |-> Idle]
    /\ obs = <<>>
    /\ allocs = <<>>
    /\ resp = NoResp
    /\ views = NoViews

NextApps ==
    \/ app_submit
    \/ app_get_config
    \/ next_ticket_number
    \/ upsert_config
    \/ next_ticket_number_return
    \/ create_ticket_channel

SpecApps == InitApps /\ [][NextApps]_vars

-----------------------------------------------------------------------------
(* Properties *)

\* C1: at every moment at most one open ticket room exists for a given
\* (panel, requester) pair, also when open_ticket callbacks interleave
C1_OneTicketPerPanelRequester ==
    \A a, b \in ChannelIds :
        (a # b /\ channels[a].exists /\ channels[b].exists)
        => LET ma == meta_unpack(TopicOf(a))
               mb == meta_unpack(TopicOf(b))
           IN  ~(/\ ma.panel # PyNone /\ ma.panel = mb.panel
                 /\ ma.opener # PyNone /\ ma.opener = mb.opener)

\* C2: once a room's claimer is set, no later step changes it to another
\* value while the room exists
C2_ClaimerImmutable ==
    [][\A ch \in ChannelIds :
          (channels[ch].exists /\ Truthy(meta_unpack(PyStr(channels[ch].topic)).claimer))
          => (channels'[ch].exists
              => meta_unpack(PyStr(channels'[ch].topic)).claimer
                 = meta_unpack(PyStr(channels[ch].topic)).claimer)]_vars

\* C3: of the claim callbacks run on one unclaimed room, exactly one is
\* answered with success; at most one success per room
C3_ExactlyOneClaimWins == \A ch \in ChannelIds : obs[ch].claims <= 1

\* an optional value as the decoders return it when it is unset or falsy
Opt(v) == IF Truthy(v) THEN v ELSE PyNone

\* an optional integer as the decimal text topic_unpack returns for it
OptText(v) == IF Truthy(v) THEN PyStr(IntToStr(v.i)) ELSE PyNone

\* C4 as stated: decoding an encoded record returns the very values that
\* were encoded, for both codecs
C4_RoundTripSameValues ==
    /\ (codec.op = "meta_rt" /\ codec.done)
       => codec.res.out = [panel   |-> PyInt(codec.in.panel),
                           ticket  |-> PyInt(codec.in.ticket),
                           opener  |-> PyInt(codec.in.opener),
                           claimer |-> codec.in.claimer]
    /\ (codec.op = "topic_rt" /\ codec.done)
       => codec.res.out = [opener    |-> PyInt(codec.in.opener),
                           created   |-> PyStr(codec.in.created),
                           submitted |-> codec.in.submitted,
                           smsg      |-> codec.in.smsg,
                           approved  |-> codec.in.approved,
                           entry     |-> codec.in.entry]

\* C4: meta_unpack(meta_pack(..)) returns the encoded panel, ticket and
\* opener as integers and the claimer as encoded, an unset or zero claimer
\* as unset; topic_unpack(topic_pack(..)) returns opener, smsg and entry as
\* the decimal text of the encoded integers, the timestamps as the encoded
\* text, and every unset or zero optional field as unset
C4_RoundTrip ==
    /\ (codec.op = "meta_rt" /\ codec.done)
       => /\ ~codec.res.raised /\ ~codec.res.caught
          /\ codec.res.out = [panel   |-> PyInt(codec.in.panel),
                              ticket  |-> PyInt(codec.in.ticket),
                              opener  |-> PyInt(codec.in.opener),
                              claimer |-> Opt(codec.in.claimer)]
    /\ (codec.op = "topic_rt" /\ codec.done)
       => /\ ~codec.res.raised /\ ~codec.res.caught
          /\ codec.res.out = [opener    |-> PyStr(IntToStr(codec.in.opener)),
                              created   |-> PyStr(codec.in.created),
                              submitted |-> Opt(codec.in.submitted),
                              smsg      |-> OptText(codec.in.smsg),
                              approved  |-> Opt(codec.in.approved),
                              entry     |-> OptText(codec.in.entry)]
          /\ IntOf(codec.res.out.opener.s) = codec.in.opener

\* a record with every optional field set has made the round trip
C4_Witness ==
    /\ codec.op = "topic_rt" /\ codec.done
    /\ Truthy(codec.in.submitted) /\ Truthy(codec.in.smsg)
    /\ Truthy(codec.in.approved) /\ Truthy(codec.in.entry)
    /\ codec.res.out.entry = PyStr(IntToStr(codec.in.entry.i))

\* C5: decoding never raises, and a topic with any malformed part decodes
\* to the all-unset record
C5_DecodeTotalAllUnset ==
    /\ (codec.op = "meta_dec" /\ codec.done)
       => /\ ~codec.res.raised
          /\ codec.res.caught => codec.res.out = MetaUnset
    /\ (codec.op = "topic_dec" /\ codec.done)
       => /\ ~codec.res.raised
          /\ codec.res.caught => codec.res.out = TopicUnset
    /\ (codec.op = "parts_dec" /\ codec.done) => ~codec.res.raised

\* C6: closing twice, or on a room already deleted, delivers no second
\* transcript and ends in no unhandled error
C6_CloseEffectIdempotent ==
    \A ch \in ChannelIds :
        /\ obs[ch].transcripts <= 1
        /\ obs[ch].deletes <= 1
        /\ ~channels[ch].exists => ~(resp.op = "close" /\ resp.code = "unhandled_exception")

\* a coachbot topic that records an approval: timestamp and roster entry id
ApprovedIn(topic) ==
    LET meta == topic_unpack(PyStr(topic))
    IN  Truthy(meta.approved) /\ Truthy(meta.entry)

\* a coachbot topic that records a submission
SubmittedIn(topic) ==
    LET meta == topic_unpack(PyStr(topic))
    IN  Truthy(meta.submitted) /\ Truthy(meta.smsg)

\* C7: the status only moves forward: while a room exists, no step takes a
\* topic that records an approval to one that records none, nor a topic
\* that records a submission to one that records none
C7_StatusOnlyAdvances ==
    [][\A ch \in ChannelIds :
          (channels[ch].exists /\ channels'[ch].exists)
          => /\ ApprovedIn(channels[ch].topic) => ApprovedIn(channels'[ch].topic)
             /\ SubmittedIn(channels[ch].topic) => SubmittedIn(channels'[ch].topic)]_vars

\* C8: submit is answered with success only on a ticket that was not yet
\* submitted when the callback read it
C8_SubmitOnlyWhenOpen ==
    ~(/\ resp.op = "submit"
      /\ resp.code \in {"submitted", "submitted_then_raised"}
      /\ resp.resubmit)

\* C9: approve is answered with success only on a ticket for which no
\* roster message had been published when the callback read it
C9_ApproveOnlyOnce ==
    ~(/\ resp.op = "approve"
      /\ resp.code \in {"approved", "approved_then_raised"}
      /\ resp.posted_before)

\* C10: the ticket sequence numbers handed out are pairwise distinct and
\* strictly increasing in allocation order, also when open_ticket callbacks
\* interleave; every callback in flight holds the number it was given
C10_SeqNumbersIncrease ==
    /\ \A i, j \in 1..Len(allocs) : i < j => allocs[i] < allocs[j]
    /\ \A t \in 1..MaxTasks : tasks[t].kind = "open" => tasks[t].ticket_seq \in Range(allocs)
    /\ \A t, q \in 1..MaxTasks :
          (t # q /\ tasks[t].kind = "open" /\ tasks[q].kind = "open")
          => tasks[t].ticket_seq # tasks[q].ticket_seq

\* two open_ticket callbacks are in flight at once, each with its number
C10_Witness ==
    /\ Len(allocs) >= 2
    /\ \A t \in 1..MaxTasks : tasks[t].kind = "open"

\* the ticket numbers of panel pid in newbot: those in the topics of its
\* rooms and those held by its open_ticket callbacks in flight
PanelTickets(pid) ==
    {meta_unpack(TopicOf(ch)).ticket.i :
        ch \in {c \in ChannelIds : meta_unpack(TopicOf(c)).panel = PyInt(pid)}}
    \cup {tasks[t].ticket_seq :
            t \in {q \in 1..MaxTasks : tasks[q].kind = "open" /\ tasks[q].panel_id = pid}}

\* C11 (as stated): every panel numbers its tickets on its own, so a panel
\* that has tickets has a ticket numbered 1
C11_PanelsStartAtOne ==
    program = "newbot"
    => \A pid \in 1..MaxPanels : PanelTickets(pid) # {} => 1 \in PanelTickets(pid)

\* C11 (amended): the panels of a tenant share one ticket counter; the k-th
\* ticket opened in the tenant gets number k whatever its panel, the stored
\* counter is one past the tickets opened, and no number is used by two panels
C11_SharedTicketCounter ==
    program = "newbot"
    => /\ \A i \in 1..Len(allocs) : allocs[i] = i
       /\ store.next_ticket_seq = Len(allocs) + 1
       /\ \A p, q \in 1..MaxPanels : p # q => PanelTickets(p) \cap PanelTickets(q) = {}

\* two panels each have their first ticket; one is numbered 1, the other 2
C11_Witness ==
    /\ program = "newbot"
    /\ \E p, q \in 1..MaxPanels :
          /\ p # q
          /\ \E a, b \in ChannelIds :
                /\ meta_unpack(TopicOf(a)).panel = PyInt(p)
                /\ meta_unpack(TopicOf(b)).panel = PyInt(q)
          /\ PanelTickets(p) = {1}
          /\ PanelTickets(q) = {2}

\* the roster entry ids a coachbot approve callback in flight holds: its
\* entry_id local, later the entry field of the topic it is about to write
TaskEntries(t) ==
    IF tasks[t].kind # "approve" THEN {}
    ELSE IF tasks[t].pc = "post" THEN {tasks[t].entry_id}
    ELSE IF tasks[t].pc = "edit"
    THEN {IntOf(topic_unpack(PyStr(tasks[t].new_topic)).entry.s)}
    ELSE {}

\* the roster entry id recorded in the topic of room ch, if any
RoomEntries(ch) ==
    LET entry == topic_unpack(TopicOf(ch)).entry
    IN  IF Truthy(entry) THEN {IntOf(entry.s)} ELSE {}

\* every entry id handed out is below the stored counter, and no id is held
\* by two callbacks or recorded in two rooms
EntryIdsDistinct ==
    /\ \A t \in 1..MaxTasks : \A e \in TaskEntries(t) : e >= 1 /\ e < store.next_entry_id
    /\ \A ch \in ChannelIds : \A e \in RoomEntries(ch) : e >= 1 /\ e < store.next_entry_id
    /\ \A t, q \in 1..MaxTasks : t # q => TaskEntries(t) \cap TaskEntries(q) = {}
    /\ \A a, b \in ChannelIds : a # b => RoomEntries(a) \cap RoomEntries(b) = {}

\* a step changes the stored counter only by handing the old value to an
\* approve callback and storing the value plus one, nothing else in the store
\* changes with it, and a step of open_ticket leaves the whole store alone
EntryCounterStep ==
    /\ store'.next_entry_id \in {store.next_entry_id, store.next_entry_id + 1}
    /\ store'.next_entry_id # store.next_entry_id
       => /\ store' = [store EXCEPT !.next_entry_id = store.next_entry_id + 1]
          /\ \E t \in 1..MaxTasks :
                /\ tasks[t].kind = "approve" /\ tasks[t].pc = "fetch"
                /\ tasks'[t].kind = "approve" /\ tasks'[t].pc = "post"
                /\ tasks'[t].entry_id = store.next_entry_id
    /\ (\/ Len(channels') > Len(channels)
        \/ \E t \in 1..MaxTasks : tasks[t].kind # "coach_open" /\ tasks'[t].kind = "coach_open")
       => store' = store

\* C12: roster entry ids are pairwise distinct and strictly increasing in the
\* order approve hands them out; approving changes nothing in the store but
\* the entry counter, and opening an application never changes that counter
C12_EntryIdsIncrease == []EntryIdsDistinct /\ [][EntryCounterStep]_vars

\* two entry ids were handed out, a second application was opened, and the
\* first room records entry 2
C12_Witness ==
    /\ program = "coachbot"
    /\ store.next_entry_id = 3
    /\ Len(channels) = 2
    /\ RoomEntries(1) = {2}

\* the panel table and the panel counter of a store of newbot or noobbot
PanelsOf(st) == IF program = "noobbot" THEN st.tickets.panels ELSE st.panels

NextPanelIdOf(st) ==
    IF program = "noobbot" THEN st.tickets.next_panel_id ELSE st.next_panel_id

\* every panel on record has an id below the counter
PanelIdsBelowCounter ==
    program \in {"newbot", "noobbot"}
    => \A p \in DOMAIN PanelsOf(store) : p >= 1 /\ p < NextPanelIdOf(store)

\* the counter never goes back, and a panel that appears in the table has
\* the old value of the counter as its id and moves the counter one past it
PanelCounterStep ==
    program \in {"newbot", "noobbot"}
    => /\ NextPanelIdOf(store') >= NextPanelIdOf(store)
       /\ \A p \in DOMAIN PanelsOf(store') \ DOMAIN PanelsOf(store) :
             /\ p = NextPanelIdOf(store)
             /\ NextPanelIdOf(store') = p + 1

\* C13: panel ids come from a counter that only grows; a new panel gets an id
\* above every id handed out before, deleted panels included
C13_PanelIdsNeverReused == []PanelIdsBelowCounter /\ [][PanelCounterStep]_vars

\* panel 1 was created and deleted, and the panel created after it got id 2
C13_Witness ==
    /\ program = "noobbot"
    /\ DOMAIN store.tickets.panels = {2}
    /\ store.tickets.next_panel_id = 3

\* close_ticket pressed by u in room ch gets past its guards
CloseTicketStarts(u, ch) ==
    /\ close_ticket
    /\ \E t \in 1..MaxTasks :
          /\ tasks[t] = Idle
          /\ tasks'[t].kind = "close" /\ tasks'[t].actor = u /\ tasks'[t].ch = ch

\* the panel id in the topic of a noobbot room
NoobRoomPanel(ch) == IntOf(DictGet(NoobMeta(channels[ch].topic), Lit.panel).s)

NoobUnclaimed(ch) ==
    LET claimed == DictGet(NoobMeta(channels[ch].topic), Lit.claimed)
    IN  ~Truthy(claimed) \/ claimed = PyStr(Lit.none)

\* whether its panel is still in the table or not, an unclaimed room can be
\* claimed, and any room closed, by exactly the members with manage_channels
RoomsServedWithoutPanel ==
    \A ch \in ChannelIds, u \in Users :
        (channels[ch].exists /\ HasFreeSlot)
        => /\ NoobUnclaimed(ch) => (ClaimTicketGuard(u, ch) = "ok" <=> manage_channels(u))
           /\ obs[ch].transcripts < MaxTranscripts
              => (ENABLED CloseTicketStarts(u, ch) <=> manage_channels(u))

\* a step of open_ticket that does more than answer the member: it takes a
\* ticket number or starts the creation of a room
OpenTicketActs ==
    /\ noobbot_open_ticket
    /\ (allocs' # allocs \/ store' # store \/ tasks' # tasks \/ channels' # channels)

\* such a step on a panel that is not in the table
OpenTicketActsWithoutPanel ==
    /\ OpenTicketActs
    /\ ~\E t \in 1..MaxTasks :
           /\ tasks[t] = Idle /\ tasks'[t].kind = "open"
           /\ tasks'[t].panel_id \in DOMAIN store.tickets.panels

\* C14: after panel_delete an open_ticket on that panel creates no room and
\* takes no ticket number, while the rooms opened from it before can be
\* claimed and closed by the same members as before
C14_DeletedPanelBlocksOpensOnly ==
    /\ RoomsServedWithoutPanel
    /\ ~ENABLED OpenTicketActsWithoutPanel
    /\ DOMAIN store.tickets.panels = {} => ~ENABLED OpenTicketActs

\* the panel is gone, an open_ticket on it was just refused, and an unclaimed
\* room opened from it is still there with a callback slot free
C14_Witness ==
    /\ program = "noobbot"
    /\ DOMAIN store.tickets.panels = {}
    /\ resp.op = "open_ticket" /\ resp.code = "panel_not_configured"
    /\ HasFreeSlot
    /\ \E ch \in ChannelIds :
          channels[ch].exists /\ NoobRoomPanel(ch) = 1 /\ NoobUnclaimed(ch)

\* a room that was renamed closed-<name> because its deletion was refused no
\* longer counts as its requester's ticket in the scan of open_ticket
RenamedRoomNotCounted ==
    program = "newbot"
    => \A ch \in ChannelIds :
          (channels[ch].exists /\ channels[ch].closed_prefix)
          => LET meta == meta_unpack(TopicOf(ch))
             IN  ~HasTicket(meta.panel.i, meta.opener.i)

\* no claim callback gets past its guards on a room that is already renamed
NoClaimOnRenamedRoom ==
    program = "newbot"
    => \A t \in 1..MaxTasks :
          (tasks[t] = Idle /\ tasks'[t].kind = "claim")
          => ~channels[tasks'[t].ch].closed_prefix

\* C17: when the platform refuses the deletion, the room is renamed and the
\* ticket counts as deleted from then on: it does not block a new open_ticket
\* of its requester on its panel, and claim is refused on it
C17_RenamedRoomIsDeleted == []RenamedRoomNotCounted /\ [][NoClaimOnRenamedRoom]_vars

\* C18: a claim, submit, approve or close callback that arrives late, after
\* the transition it asks for has happened or after its room is gone, is
\* answered with a guard failure and never ends in an unhandled exception
C18_LateCallbackFailsGracefully ==
    ~(/\ program \in {"newbot", "coachbot"}
      /\ resp.op \in {"claim", "close", "submit", "approve"}
      /\ resp.code = "unhandled_exception"
      /\ \E ch \in ChannelIds : ~channels[ch].exists \/ obs[ch].deletes > 0)

\* C15: whenever a room has been deleted by a close or delete callback, a
\* transcript of it was delivered before; no path deletes without one
C15_TranscriptBeforeDelete ==
    \A ch \in ChannelIds : obs[ch].deletes > 0 => obs[ch].transcripts > 0

\* a delete callback that is exporting or delivering the transcript of an
\* existing room does not end at that step: it goes on towards the deletion
TranscriptStepGoesOn ==
    \A t \in 1..MaxTasks :
        (/\ tasks[t].kind = "confirm_delete"
         /\ tasks[t].pc \in {"export", "send"}
         /\ channels[tasks[t].ch].exists)
        => tasks'[t] # Idle

\* C16: a failure of the transcript export or of its delivery does not block
\* the deletion: the callback still goes on to delete the room, and the
\* failure is reported to the staff member instead of leaving the callback
C16_ExportFailureDoesNotBlockDelete == [][TranscriptStepGoesOn]_vars

\* the panels of the persisted store
StoredPanels == Range(PanelKeys(program, store))

\* the process was restarted: it holds no view sent with a panel message
Restarted == views.panels = {}

\* C19: after a restart every panel of the persisted store has exactly one
\* open-ticket listener, registered under the identifier built from tenant
\* and panel id, and a click on the panel's message is handled for that panel
C19_OneListenerPerStoredPanel ==
    Restarted
    => \A panel \in StoredPanels :
          /\ Cardinality({cid \in DOMAIN views.persistent : views.persistent[cid] = panel}) = 1
          /\ panel \in ListenedPanels({panel})
          /\ PanelListener(panel) = panel

\* no callback is in flight on room ch
Quiet(ch) == \A t \in 1..MaxTasks : tasks[t] = Idle \/ tasks[t].ch # ch

\* C20: the callbacks of a ticket room decide from persisted state: a room
\* that is closed and claimed by X is treated so whatever the process's views
\* hold, also after a restart: Close is refused as already closed, Reopen is
\* permitted to staff, and the claimer-only action accepts X
C20_DecideFromPersistedState ==
    program = "ticketing"
    => \A ch \in ChannelIds :
          (channels[ch].exists /\ Quiet(ch))
          => /\ channels[ch].locked
                => \A u \in Users :
                      IsStaff(u) => /\ CloseTicketGuard(u, ch) = "already_closed"
                                    /\ ReopenTicketGuard(u, ch) = "ok"
             /\ Truthy(store.channel_meta[ch].claimer_id)
                => FeedbackGuard(store.channel_meta[ch].claimer_id.i, ch) # "claimer_only"

\* the panel recorded in the topic of room ch
RoomPanel(ch) == meta_unpack(TopicOf(ch)).panel.i

\* member u holds a handler role of panel pid as stored, or manage_channels
HandlesPanel(u, pid) ==
    \/ manage_channels(u)
    \/ pid \in DOMAIN store.panels /\ MemberRoles(u) \cap store.panels[pid].role_ids # {}

\* a step in which a claim callback gets past its guards is taken by a
\* handler of the room's own panel
ClaimStartsForOwnPanel ==
    \A t \in 1..MaxTasks :
        (tasks[t] = Idle /\ tasks'[t].kind = "claim")
        => HandlesPanel(tasks'[t].actor, RoomPanel(tasks'[t].ch))

\* C21: claim is authorised per panel: only a holder of a handler role of
\* the ticket's own panel, or of manage_channels, gets a claim accepted; a
\* handler role of another panel of the guild never allows it
C21_ClaimAuthorisedPerPanel ==
    /\ [](program = "newbot"
          => \A u \in Users, ch \in ChannelIds :
                (IsTextChannel(ch) /\ ~HandlesPanel(u, RoomPanel(ch)))
                => ClaimGuard(u, ch) = "not_allowed")
    /\ [][program = "newbot" => ClaimStartsForOwnPanel]_vars

\* user 2, who holds RoleA only, has claimed the ticket of the panel handled
\* by RoleA while the other panel is handled by RoleB alone
C21_Witness ==
    /\ program = "newbot"
    /\ store.panels[1].role_ids = {RoleB}
    /\ store.panels[2].role_ids = {RoleA}
    /\ meta_unpack(TopicOf(2)).claimer = PyInt(2)
    /\ ~Truthy(meta_unpack(TopicOf(1)).claimer)

\* member u is the requester of room ch, its recorded claimer, or staff
MayCloseRoom(u, ch) ==
    \/ u = store.channel_meta[ch].opener_id
    \/ PyInt(u) = store.channel_meta[ch].claimer_id
    \/ IsStaff(u)

\* C22: close and reopen are permitted exactly to the ticket's requester, its
\* claimer and the holders of the close capability: these are never refused
\* for lack of permission, and everybody else is
C22_CloseReopenPermittedExactly ==
    program = "ticketing"
    => \A ch \in ChannelIds, u \in Users :
          channels[ch].exists
          => /\ CloseTicketGuard(u, ch) = "staff_only" <=> ~MayCloseRoom(u, ch)
             /\ ViewOf(ViewRef(ch)).closed
                => (ReopenTicketGuard(u, ch) = "staff_only" <=> ~MayCloseRoom(u, ch))

\* a room that is locked denies send_messages to its requester
RequesterMutedWhileLocked ==
    \A ch \in ChannelIds :
        (channels[ch].exists /\ channels[ch].locked)
        => channels[ch].overwrites[<<"member", store.channel_meta[ch].opener_id>>].send_messages = "deny"

\* a step that unlocks a room leaves it with the overwrites it had before
\* it was locked
ReopenRestoresOverwrites ==
    \A ch \in ChannelIds :
        (channels[ch].exists /\ channels[ch].locked /\ ~channels'[ch].locked)
        => channels'[ch].overwrites = obs[ch].before_close

\* C23: close revokes the requester's send permission in the room and reopen
\* restores it: after a confirmed close the requester cannot send, and after
\* close and reopen every overwrite of the room is as it was before the close
C23_CloseRevokesReopenRestores ==
    /\ [](program = "ticketing" => RequesterMutedWhileLocked)
    /\ [][program = "ticketing" => ReopenRestoresOverwrites]_vars

\* the answers of a rejected open_ticket
OpenTicketFailures ==
    {"panel_not_configured", "not_configured", "no_category", "category_unavailable",
     "already_open"}

\* a step that answers open_ticket with a failure creates no room, starts no
\* callback and leaves the store, its counters and the numbers handed out
RejectedOpenChangesNothing ==
    (resp' # resp /\ resp'.op = "open_ticket" /\ resp'.code \in OpenTicketFailures)
    => /\ store' = store
       /\ channels' = channels
       /\ tasks' = tasks
       /\ allocs' = allocs

\* C24: a rejected open_ticket changes nothing: no room is created and the
\* tenant's ticket counter and persisted store stay exactly as they were
C24_RejectedOpenChangesNothing == [][RejectedOpenChangesNothing]_vars

\* newbot has just refused a second ticket to a requester who has a room
C24_Witness ==
    /\ program = "newbot"
    /\ resp.op = "open_ticket"
    /\ resp.code = "already_open"
    /\ \E ch \in ChannelIds : channels[ch].exists
    /\ store.next_ticket_seq > 1

\* member u holds one of the roles rs, or manage_channels
HoldsOneOf(u, rs) == manage_channels(u) \/ MemberRoles(u) \cap rs # {}

\* the rooms that carry a ticket of panel pid
TicketsOf(pid) == {ch \in ChannelIds : IsTextChannel(ch) /\ RoomPanel(ch) = pid}

\* the last answer is that of /panel_roles giving panel resp.panel the roles
\* resp.roles; no other step writes the store, and each one that answers
\* takes this answer's place
RolesReplaced == resp.op = "panel_roles" /\ resp.code = "ok"

\* the claim guard of every ticket of the panel lets through exactly the
\* holders of the roles just given and of manage_channels
ClaimFollowsNewRoles ==
    RolesReplaced
    => \A ch \in TicketsOf(resp.panel), u \in Users :
          (ClaimGuard(u, ch) # "not_allowed") <=> HoldsOneOf(u, resp.roles)

\* the close guard read as the claim guard is: nobody else passes
CloseFollowsNewRolesOnly ==
    RolesReplaced
    => \A ch \in TicketsOf(resp.panel), u \in Users :
          (CloseGuard(u, ch) = "ok") <=> HoldsOneOf(u, resp.roles)

\* the close guard lets through the ticket's requester as well
CloseFollowsNewRoles ==
    RolesReplaced
    => \A ch \in TicketsOf(resp.panel), u \in Users :
          (CloseGuard(u, ch) = "ok")
          <=> (meta_unpack(TopicOf(ch)).opener = PyInt(u) \/ HoldsOneOf(u, resp.roles))

\* /panel_roles on an id that is not stored changes nothing
UnknownPanelChangesNothing ==
    (resp' # resp /\ resp'.op = "panel_roles" /\ resp'.code = "panel_not_found")
    => (store' = store /\ channels' = channels /\ tasks' = tasks /\ views' = views)

\* C25 as stated: after panel_roles for panel P the claim and close guards
\* of every ticket of P authorise exactly the holders of the new role set
\* plus manage_channels; an unknown panel id changes nothing
C25_GuardsFollowNewRolesOnly ==
    /\ [](ClaimFollowsNewRoles /\ CloseFollowsNewRolesOnly)
    /\ [][UnknownPanelChangesNothing]_vars

\* C25 amended: as above, except that the close guard authorises the
\* ticket's requester as well, whatever the role set
C25_GuardsFollowNewRoles ==
    /\ [](ClaimFollowsNewRoles /\ CloseFollowsNewRoles)
    /\ [][UnknownPanelChangesNothing]_vars

\* panel 1, handled by RoleB at first, has just been given RoleA alone while
\* its ticket is open: user 3, who holds RoleB, keeps manage_channels, and
\* user 2 now passes
C25_Witness ==
    /\ program = "newbot"
    /\ resp.op = "panel_roles"
    /\ resp.code = "ok"
    /\ resp.panel = 1
    /\ resp.roles = {RoleA}
    /\ store.panels[1].role_ids = {RoleA}
    /\ TicketsOf(1) # {}
    /\ ClaimGuard(2, 1) # "not_allowed"

\* the answers with which a ticket callback refuses to act
GuardFailures ==
    {"not_allowed", "staff_only", "admins_only", "cannot_close", "already_claimed",
     "already_closed", "not_closed", "not_opener", "not_the_confirming_user",
     "panel_not_configured", "not_configured", "not_in_roster"}

\* C26: every guard-failure response of a ticket callback is sent to the
\* acting user alone (ephemeral), never posted visibly in the room
C26_GuardFailuresAreEphemeral == resp.code \in GuardFailures => resp.ephemeral

\* a step leaves the claimer that channel_meta records for a room in place
RecordedClaimerStays ==
    \A ch \in DOMAIN store.channel_meta :
        (Truthy(store.channel_meta[ch].claimer_id) /\ ch \in DOMAIN store'.channel_meta)
        => store'.channel_meta[ch].claimer_id = store.channel_meta[ch].claimer_id

\* a Claim that is answered as done found no claimer recorded for the room
ClaimOnClaimedIsRejected ==
    \A ch \in DOMAIN store.channel_meta :
        (ch \in DOMAIN obs /\ obs'[ch].claims > obs[ch].claims)
        => ~Truthy(store.channel_meta[ch].claimer_id)

\* C27: in cogs/ticketing a Claim on a ticket whose channel metadata records
\* a claimer already is rejected and leaves the recorded claimer unchanged;
\* only the first authorised Claim sets the claimer
C27_FirstClaimSetsClaimer ==
    [][program = "ticketing" => (RecordedClaimerStays /\ ClaimOnClaimedIsRejected)]_vars

\* member u may delete the ticket of room ch as things are now: administrator,
\* or holder of a delete role of the room's panel
MayDelete(u, ch) == administrator(u) \/ DeleteRoles(ViewRef(ch)) \cap MemberRoles(u) # {}

\* a step in which Confirm Delete is accepted is taken for a member who may
\* delete the ticket at that moment
ConfirmDeleteChecksAgain ==
    \A t \in 1..MaxTasks :
        (tasks[t].kind = "confirm_delete" /\ tasks[t].pc = "wait"
         /\ tasks'[t].kind = "confirm_delete" /\ tasks'[t].pc = "history")
        => MayDelete(tasks[t].actor, tasks[t].ch)

\* C28: Delete acts only on current authorisation: a user whose delete role,
\* or the panel's delete_roles entry, was removed between Delete and Confirm
\* Delete cannot delete the ticket
C28_DeleteOnCurrentAuthorisation == [][program = "ticketing" => ConfirmDeleteChecksAgain]_vars

\* a step in which submit or approve answers with success leaves a room whose
\* topic records what was reported: submitted with the id of the submitted
\* message, or approved with the entry id under which the roster message went
\* out
SuccessIsRecorded ==
    \A t \in 1..MaxTasks :
        (/\ tasks[t].kind \in {"submit", "approve"}
         /\ tasks[t].pc = "edit"
         /\ tasks'[t] = Idle
         /\ resp'.code \in {"submitted", "approved"})
        => LET meta == topic_unpack(PyStr(channels'[tasks[t].ch].topic))
               reported == topic_unpack(PyStr(tasks[t].new_topic))
           IN  IF tasks[t].kind = "submit"
               THEN Truthy(meta.submitted) /\ meta.smsg = reported.smsg
               ELSE Truthy(meta.approved) /\ meta.entry = reported.entry

\* C29: a success response is consistent with the persisted state: when
\* submit reports success the room metadata records submitted and the
\* submitted-message id, when approve reports approval of roster entry n the
\* room metadata records approved with entry = n, also when the platform
\* rejects the metadata write
C29_SuccessMatchesMetadata == [][program = "coachbot" => SuccessIsRecorded]_vars

\* C30: the metadata namespaces do not interfere: meta_unpack of any string
\* produced by topic_pack returns all fields unset, and topic_unpack of any
\* string produced by meta_pack returns all fields unset
C30_NamespacesDoNotInterfere ==
    /\ (codec.op = "meta_of_topic" /\ codec.done)
       => (codec.res.out = MetaUnset /\ ~codec.res.raised)
    /\ (codec.op = "topic_of_meta" /\ codec.done)
       => (codec.res.out = TopicUnset /\ ~codec.res.raised)

\* meta_unpack has read the topic of an approved application, every field of
\* which is set
C30_Witness ==
    /\ codec.op = "meta_of_topic"
    /\ codec.done
    /\ codec.in.opener = 3
    /\ Truthy(codec.in.submitted)
    /\ Truthy(codec.in.smsg)
    /\ Truthy(codec.in.approved)
    /\ Truthy(codec.in.entry)

\* C31: ticket ids are never reused across a crash and restart: whatever
\* the point of the crash, save_all included, the next ticket sequence number
\* to be handed out is greater than the number of every existing ticket room
C31_NoTicketIdReuseAfterCrash ==
    program = "newbot"
    => \A ch \in ChannelIds :
          (channels[ch].exists /\ Truthy(meta_unpack(TopicOf(ch)).ticket))
          => store.next_ticket_seq > meta_unpack(TopicOf(ch)).ticket.i

\* C32: in cogs/applications next_ticket_number returns pairwise distinct
\* numbers to callers that run concurrently for one guild: two tickets are
\* numbered differently, also when their callbacks interleave at the await
\* inside next_ticket_number
C32_DistinctApplicationNumbers ==
    program = "applications"
    => \A a, b \in ChannelIds : a # b => channels[a].number # channels[b].number

\* the roster entry ids handed out so far in coachbot.py
EntriesConsumed == IF program = "coachbot" THEN store.next_entry_id - 1 ELSE 0

\* C33: each ticket produces at most one roster entry: however the approve
\* callbacks of two authorised actors on one submitted ticket interleave, one
\* roster message is published for the ticket and one roster entry id is
\* consumed for it
C33_OneRosterEntryPerTicket ==
    program \in {"coachbot", "noobbot"}
    => /\ \A ch \in ChannelIds : obs[ch].posts <= 1
       /\ EntriesConsumed <= Len(channels)

\* the view whose closed flag and claimer the callbacks of room ch read in
\* the next state
ViewAfter(ch) == IF ch \in DOMAIN views'.rooms THEN views'.rooms[ch] ELSE views'.generic

\* the step is a restart: no callback is left and the views are those of
\* cog_load
RestartStep ==
    /\ tasks' = [t \in 1..MaxTasks |-> Idle]
    /\ views' = [NoViews EXCEPT
                   !.persistent = add_views(<<>>, program, PanelKeys(program, store))]

\* every step of a callback acts on one room; the closed flag and claimer
\* that the callbacks of any other room read stay as they are
OneRoomPerStep ==
    ~RestartStep
    => Cardinality({ch \in ChannelIds : ViewAfter(ch) # ViewOf(ViewRef(ch))}) <= 1

\* C34: tickets are isolated from one another: a claim, confirmed close or
\* reopen on one ticket room never changes the closed flag or the claimer
\* that the callbacks of another room observe, also after a restart, when
\* the one TicketChannelView of cog_load serves every room
C34_TicketsAreIsolated == [][program = "ticketing" => OneRoomPerStep]_vars

\* a click that is refused as not the opener's leaves the counts and the
\* prompt as they were
ForeignClickChangesNothing ==
    (resp' # resp /\ resp'.op = "review" /\ resp'.code = "not_opener")
    => (store' = store /\ views' = views /\ tasks' = tasks)

\* C35: a review prompt records at most one review: however the opener's
\* thumbs-up and thumbs-down clicks on one ReviewView follow each other or
\* interleave, good + bad of the claimer's roster entry goes up by exactly 1
\* in total, and clicks by anyone else change nothing
C35_OneReviewPerPrompt ==
    /\ [](store.review.good + store.review.bad <= 1)
    /\ [][ForeignClickChangesNothing]_vars

\* some room's metadata has panel equal to pid and opener equal to u: the
\* fields of the topic, split at "|" and "=", are the decimal texts of both
ExactTicket(pid, u) ==
    \E ch \in ChannelIds :
        /\ channels[ch].exists
        /\ LET meta == NoobMeta(channels[ch].topic)
           IN  /\ DictGet(meta, Lit.panel) = PyStr(IntToStr(pid))
               /\ DictGet(meta, Lit.opener) = PyStr(IntToStr(u))

\* the panels stored for the guild
PanelIds == IF program = "noobbot" THEN DOMAIN store.tickets.panels ELSE DOMAIN store.panels

\* C36: the one-ticket-per-panel check matches exactly: open_ticket on panel
\* P by user U is refused as a duplicate only if a room's metadata has panel
\* P and opener U; a ticket of U on another panel (panel 10 when P is 1) or
\* of another user on P never blocks it
C36_DuplicateCheckIsExact ==
    program \in {"newbot", "noobbot"}
    => \A pid \in PanelIds, u \in Users :
          (IF program = "noobbot" THEN NoobHasTicket(pid, u) ELSE HasTicket(pid, u))
          => ExactTicket(pid, u)

\* the panel, ticket number and opener a room topic records, as the program
\* that wrote it reads them
RoomIdentity(topic) ==
    IF program = "newbot"
    THEN LET meta == meta_unpack(PyStr(topic))
         IN  <<meta.panel, meta.ticket, meta.opener>>
    ELSE LET meta == NoobMeta(topic)
         IN  <<DictGet(meta, Lit.panel), DictGet(meta, Lit.ticket), DictGet(meta, Lit.opener)>>

\* the claimer a room topic records
RoomClaimer(topic) ==
    IF program = "newbot"
    THEN meta_unpack(PyStr(topic)).claimer
    ELSE DictGet(NoobMeta(topic), Lit.claimed)

\* a claim that succeeds on room ch leaves panel, ticket and opener as they were
ClaimKeepsIdentity ==
    program \in {"newbot", "noobbot"} =>
    \A ch \in ChannelIds :
        (/\ Len(channels') = Len(channels)
         /\ obs'[ch].claims = obs[ch].claims + 1)
        => /\ channels'[ch].exists
           /\ RoomIdentity(channels'[ch].topic) = RoomIdentity(channels[ch].topic)
           /\ \E u \in Users :
                 RoomClaimer(channels'[ch].topic)
                    = (IF program = "newbot" THEN PyInt(u) ELSE PyStr(IntToStr(u)))

\* a claimed room is still the ticket of its opener on its panel: the
\* duplicate check finds it, and in newbot the opener may close it
ClaimedRoomRecognised ==
    \A ch \in ChannelIds :
        (channels[ch].exists /\ obs[ch].claims > 0)
        => LET id == RoomIdentity(channels[ch].topic)
           IN  \E pid \in PanelIds, u \in Users :
                  /\ id[1] = (IF program = "newbot" THEN PyInt(pid) ELSE PyStr(IntToStr(pid)))
                  /\ id[3] = (IF program = "newbot" THEN PyInt(u) ELSE PyStr(IntToStr(u)))
                  /\ IF program = "newbot"
                     THEN HasTicket(pid, u) /\ CloseGuard(u, ch) = "ok"
                     ELSE NoobHasTicket(pid, u)

\* C37: a successful claim changes only the claimer: the panel id, the ticket
\* sequence number and the opener in the room metadata are the same after
\* the claim as before it, so the room is still recognised as the opener's
\* ticket for that panel by the duplicate check and by close
C37_ClaimChangesOnlyClaimer ==
    [](program \in {"newbot", "noobbot"} => ClaimedRoomRecognised)
        /\ [][ClaimKeepsIdentity]_vars

\* a room that was claimed twice, by two claims in flight together
C37_Witness ==
    /\ program \in {"newbot", "noobbot"}
    /\ Len(channels) = 1
    /\ channels[1].exists
    /\ obs[1].claims = 2
    /\ resp.op = "claim" /\ resp.code = "claimed"

=============================================================================
